---------------------------- MODULE Spec2Model ----------------------------
(***************************************************************************)
(* Model of the leave-request application's authentication layer:          *)
(* MockAuthService (src/unnamed/part_000, lines 1-180), a singleton that   *)
(* keeps a user list and one session slot in the browser's localStorage,   *)
(* and AuthProvider (src/unnamed/part_001), the React component that       *)
(* chooses between that service and the Supabase client and exposes the    *)
(* signed-in user, session and profile.                                    *)
(*                                                                         *)
(* Values.  An optional value (T | null | undefined) is a sequence of      *)
(* length 0 (Null) or 1 (<<v>>).  A localStorage item is the same: Null    *)
(* when the key is absent, <<v>> for the text JSON.stringify(v).  The      *)
(* stored values are arrays and objects of strings and finite numbers, on  *)
(* which JSON.parse(JSON.stringify(v)) = v.                                *)
(*                                                                         *)
(* Time is in milliseconds, as returned by Date.now().                     *)
(***************************************************************************)
EXTENDS Integers, Sequences, FiniteSets, TLC

VARIABLES
    localStorage,   \* the two keys of window.localStorage used by the service
    now,            \* the wall clock, what Date.now() returns
    ticks,          \* how many times the clock has advanced (bounded)
    demo,           \* the activations of createDemoUsers, one per flow
    seeded,         \* history: some createDemoUsers call has run to completion
    issued,         \* history: the session of the latest successful signIn, and when
    last,           \* history: the latest call, its inputs, its first and last clock
                    \* reads, the store before it, its result
    auth,           \* AuthProvider's React state: user, session, profile, loading,
                    \* isMockMode
    listener,       \* the onAuthStateChange subscription: the isMockMode its
                    \* callback closed over, Null before the first effect
    passes,         \* the activations of initializeAuth, one per flow
    primary,        \* the session held by the Supabase client
    callbacks,      \* listener callbacks suspended at their profile fetch
    calls,          \* the activations of AuthProvider's signIn, signUp, signOut
    clast,          \* history: the latest step of AuthProvider, when it ran, the
                    \* React state and the store before it, what it returned
    leave_requests, \* the rows of the remote table leave_requests, oldest first
    fetches,        \* the activations of Dashboard's fetchDashboardData
    dashboard,      \* Dashboard's React state: stats, recentRequests, loading
    dlast           \* history: the latest step of fetchDashboardData

serviceVars == <<localStorage, now, ticks, demo, seeded, issued, last>>
providerVars == <<auth, listener, passes, primary, callbacks, calls, clast>>
dashVars == <<leave_requests, fetches, dashboard, dlast>>
componentVars == <<providerVars, dashVars>>
vars == <<localStorage, now, ticks, demo, seeded, issued, last,
          auth, listener, passes, primary, callbacks, calls, clast,
          leave_requests, fetches, dashboard, dlast>>

----------------------------------------------------------------------------
(* Bounds of the model *)

MaxTicks == 2       \* clock advances in one behaviour
MaxUsers == 4       \* callers stop signing up once the list is this long
NumFlows == 2       \* concurrent activations of createDemoUsers
MaxCallbacks == 1   \* listener callbacks suspended at their profile fetch
MaxRacing == 2      \* the same, where the callbacks of two notifications race
MaxRequests == 2    \* rows of the remote table leave_requests
MaxFetches == 1     \* activations of fetchDashboardData in one behaviour

----------------------------------------------------------------------------
(* Constants of the program *)

MOCK_USERS_KEY == "mock_users"
MOCK_SESSION_KEY == "mock_session"

\* 24 * 60 * 60 * 1000, the session lifetime added to Date.now() in signIn
SESSION_TTL_MS == 24 * 60 * 60 * 1000

Null == << >>
Some(v) == <<v>>

demoUsers ==
    << [email |-> "admin@demo.com",    password |-> "demo123",
        first_name |-> "Admin",    last_name |-> "User", role |-> "admin"],
       [email |-> "manager@demo.com",  password |-> "demo123",
        first_name |-> "Manager",  last_name |-> "User", role |-> "manager"],
       [email |-> "employee@demo.com", password |-> "demo123",
        first_name |-> "Employee", last_name |-> "User", role |-> "employee"] >>

DemoEmails == { demoUsers[i].email : i \in 1..Len(demoUsers) }

\* The declared type of MockUser.role
MockUserRoles == {"employee", "manager", "admin"}

----------------------------------------------------------------------------
(* Inputs the callers draw from *)

Emails == DemoEmails \cup {"a@x.com"}
Passwords == {"demo123", "anything"}
\* userData.role is optional: undefined, the empty string, a declared role,
\* or a string outside the declared roles
RoleInputs == {Null, Some(""), Some("employee"), Some("manager"), Some("admin"),
               Some("intern")}
UserDataInputs ==
    { [first_name |-> "A", last_name |-> "B", role |-> r] : r \in RoleInputs }
\* Math.random().toString(36).substring(2)
RandomSuffixes == {"k3f", "z9q"}
\* How far the clock moves between two operations
ClockSteps == {1, SESSION_TTL_MS - 1, SESSION_TTL_MS}
\* How far the clock moves between two Date.now() reads of one operation
ClockSkews == {0, 1}

----------------------------------------------------------------------------
(* localStorage and JSON *)

JSONstringify(v) == Some(v)
JSONparse(text) == text[1]

getItem(ls, key) == ls[key]
setItem(ls, key, text) == [ls EXCEPT ![key] = text]
removeItem(ls, key) == [ls EXCEPT ![key] = Null]

\* stored ? JSON.parse(stored) : []
getStoredUsers(ls) ==
    LET stored == getItem(ls, MOCK_USERS_KEY)
    IN  IF stored # Null THEN JSONparse(stored) ELSE << >>

saveUsers(ls, users) == setItem(ls, MOCK_USERS_KEY, JSONstringify(users))

\* stored ? JSON.parse(stored) : null
getStoredSession(ls) ==
    LET stored == getItem(ls, MOCK_SESSION_KEY)
    IN  IF stored # Null THEN Some(JSONparse(stored)) ELSE Null

\* Variant of saveSession that does not overwrite a stored session
saveSession_KeepExisting(ls, session) ==
    IF session # Null
    THEN IF getItem(ls, MOCK_SESSION_KEY) # Null THEN ls
         ELSE setItem(ls, MOCK_SESSION_KEY, JSONstringify(session[1]))
    ELSE removeItem(ls, MOCK_SESSION_KEY)

saveSession(ls, session) ==
    IF session # Null
    THEN setItem(ls, MOCK_SESSION_KEY, JSONstringify(session[1]))
    ELSE removeItem(ls, MOCK_SESSION_KEY)

\* Variant of find whose predicate never matches
find_NeverMatches(users, email) == Null

\* users.find(u => u.email === email): the first match, or undefined
find(users, email) ==
    LET hits == { i \in 1..Len(users) : users[i].email = email }
    IN  IF hits = {} THEN Null
        ELSE Some(users[CHOOSE i \in hits : \A j \in hits : i <= j])

----------------------------------------------------------------------------
(* MockAuthService: each method as a function of the store, its arguments  *)
(* and the values it reads from the clock and from Math.random().  The     *)
(* result is [ret |-> what the method returns, ls |-> the store it leaves]. *)

UserAlreadyExists ==
    [message |-> "User already registered", code |-> "user_already_exists"]
InvalidCredentials ==
    [message |-> "Invalid login credentials", code |-> "invalid_credentials"]

\* Variant of roleOrDefault with another default role
roleOrDefault_Admin(role) ==
    IF role = Null \/ role = Some("") THEN "admin" ELSE role[1]

\* (userData.role as any) || 'employee': undefined and "" are falsy
roleOrDefault(role) ==
    IF role = Null \/ role = Some("") THEN "employee" ELSE role[1]

\* Variant of signUp that also opens a session for the new user
signUp_SignsIn(ls, email, password, userData, t1, rnd, t2) ==
    LET users == getStoredUsers(ls)
    IN  IF find(users, email) # Null
        THEN [ret |-> [user |-> Null, error |-> Some(UserAlreadyExists)],
              ls  |-> ls]
        ELSE LET newUser ==
                     [id         |-> <<"mock", t1, rnd>>,
                      email      |-> email,
                      first_name |-> userData.first_name,
                      last_name  |-> userData.last_name,
                      role       |-> roleOrDefault(userData.role),
                      created_at |-> <<"iso", t2>>]
                 session ==
                     [user         |-> newUser,
                      access_token |-> <<"mock_token", t1>>,
                      expires_at   |-> t2 + SESSION_TTL_MS]
             IN  [ret |-> [user |-> Some(newUser), error |-> Null],
                  ls  |-> saveSession(saveUsers(ls, Append(users, newUser)),
                                      Some(session))]

\* Variant of signUp that puts the new record at the head of the list
signUp_Unshift(ls, email, password, userData, t1, rnd, t2) ==
    LET users == getStoredUsers(ls)
    IN  IF find(users, email) # Null
        THEN [ret |-> [user |-> Null, error |-> Some(UserAlreadyExists)],
              ls  |-> ls]
        ELSE LET newUser ==
                     [id         |-> <<"mock", t1, rnd>>,
                      email      |-> email,
                      first_name |-> userData.first_name,
                      last_name  |-> userData.last_name,
                      role       |-> roleOrDefault(userData.role),
                      created_at |-> <<"iso", t2>>]
             IN  [ret |-> [user |-> Some(newUser), error |-> Null],
                  ls  |-> saveUsers(ls, <<newUser>> \o users)]

\* Variant of signUp without the "user already exists" check
signUp_NoDuplicateCheck(ls, email, password, userData, t1, rnd, t2) ==
    LET users == getStoredUsers(ls)
        newUser ==
            [id         |-> <<"mock", t1, rnd>>,
             email      |-> email,
             first_name |-> userData.first_name,
             last_name  |-> userData.last_name,
             role       |-> roleOrDefault(userData.role),
             created_at |-> <<"iso", t2>>]
    IN  [ret |-> [user |-> Some(newUser), error |-> Null],
         ls  |-> saveUsers(ls, Append(users, newUser))]

\* t1 is the Date.now() of the id, t2 the new Date() of created_at
signUp(ls, email, password, userData, t1, rnd, t2) ==
    LET users == getStoredUsers(ls)
    IN  IF find(users, email) # Null
        THEN [ret |-> [user |-> Null, error |-> Some(UserAlreadyExists)],
              ls  |-> ls]
        ELSE LET newUser ==
                     [id         |-> <<"mock", t1, rnd>>,
                      email      |-> email,
                      first_name |-> userData.first_name,
                      last_name  |-> userData.last_name,
                      role       |-> roleOrDefault(userData.role),
                      created_at |-> <<"iso", t2>>]
             IN  [ret |-> [user |-> Some(newUser), error |-> Null],
                  ls  |-> saveUsers(ls, Append(users, newUser))]

\* Variant of signIn that binds a copy of the user under an id of its own
signIn_RebindsUser(ls, email, password, t1, t2) ==
    LET users == getStoredUsers(ls)
        user  == find(users, email)
    IN  IF user = Null
        THEN [ret |-> [user |-> Null, session |-> Null,
                       error |-> Some(InvalidCredentials)],
              ls  |-> ls]
        ELSE LET copy == [user[1] EXCEPT !.id = <<"mock", t1, "session">>]
                 session ==
                     [user         |-> copy,
                      access_token |-> <<"mock_token", t1>>,
                      expires_at   |-> t2 + SESSION_TTL_MS]
             IN  [ret |-> [user |-> Some(copy), session |-> Some(session),
                           error |-> Null],
                  ls  |-> saveSession(ls, Some(session))]

\* Variant of signIn that drops the stored session when the email is unknown
signIn_ClearsSessionOnFailure(ls, email, password, t1, t2) ==
    LET user == find(getStoredUsers(ls), email)
    IN  IF user = Null
        THEN [ret |-> [user |-> Null, session |-> Null,
                       error |-> Some(InvalidCredentials)],
              ls  |-> saveSession(ls, Null)]
        ELSE LET session ==
                     [user         |-> user[1],
                      access_token |-> <<"mock_token", t1>>,
                      expires_at   |-> t2 + SESSION_TTL_MS]
             IN  [ret |-> [user |-> user, session |-> Some(session),
                           error |-> Null],
                  ls  |-> saveSession(ls, Some(session))]

\* Variant of signIn that accepts the demo password only
signIn_ChecksPassword(ls, email, password, t1, t2) ==
    LET user == IF password = "demo123"
                THEN find(getStoredUsers(ls), email) ELSE Null
    IN  IF user = Null
        THEN [ret |-> [user |-> Null, session |-> Null,
                       error |-> Some(InvalidCredentials)],
              ls  |-> ls]
        ELSE LET session ==
                     [user         |-> user[1],
                      access_token |-> <<"mock_token", t1>>,
                      expires_at   |-> t2 + SESSION_TTL_MS]
             IN  [ret |-> [user |-> user, session |-> Some(session),
                           error |-> Null],
                  ls  |-> saveSession(ls, Some(session))]

\* t1 is the Date.now() of the token, t2 the Date.now() of expires_at
signIn(ls, email, password, t1, t2) ==
    LET users == getStoredUsers(ls)
        user  == find(users, email)
    IN  IF user = Null
        THEN [ret |-> [user |-> Null, session |-> Null,
                       error |-> Some(InvalidCredentials)],
              ls  |-> ls]
        ELSE LET session ==
                     [user         |-> user[1],
                      access_token |-> <<"mock_token", t1>>,
                      expires_at   |-> t2 + SESSION_TTL_MS]
             IN  [ret |-> [user |-> user, session |-> Some(session),
                           error |-> Null],
                  ls  |-> saveSession(ls, Some(session))]

\* Variant of signOut that removes the other key
signOut_WrongKey(ls) == [ret |-> Null, ls |-> removeItem(ls, MOCK_USERS_KEY)]

signOut(ls) == [ret |-> Null, ls |-> saveSession(ls, Null)]

\* Variant of isExpired with the comparison turned round
isExpired_Inverted(session, t) == session.expires_at > t

\* session && session.expires_at < Date.now()
isExpired(session, t) == session.expires_at < t

\* Variant of getSession that reports an expired session absent but keeps it
getSession_NoEvict(ls, t) ==
    LET session == getStoredSession(ls)
    IN  IF session # Null /\ isExpired(session[1], t)
        THEN [ret |-> Null, ls |-> ls]
        ELSE [ret |-> session, ls |-> ls]

getSession(ls, t) ==
    LET session == getStoredSession(ls)
    IN  IF session # Null /\ isExpired(session[1], t)
        THEN [ret |-> Null, ls |-> saveSession(ls, Null)]
        ELSE [ret |-> session, ls |-> ls]

\* The policies object literal of getLeavePolicy
policies ==
    [sick |->
        [annual_quota |-> 10, max_consecutive_days |-> 5, requires_approval |-> FALSE],
     vacation |->
        [annual_quota |-> 20, max_consecutive_days |-> 14, requires_approval |-> TRUE],
     family_emergency |->
        [annual_quota |-> 5, max_consecutive_days |-> 3, requires_approval |-> TRUE],
     personal |->
        [annual_quota |-> 5, max_consecutive_days |-> 2, requires_approval |-> TRUE],
     other |->
        [annual_quota |-> 0, max_consecutive_days |-> 1, requires_approval |-> TRUE]]

\* Property names every object literal inherits from Object.prototype; the
\* value of each is a function or an object, which is truthy
ObjectPrototypeKeys ==
    {"constructor", "toString", "valueOf", "hasOwnProperty", "__proto__"}

\* policies[leave_type]: an own property, else an inherited one, else undefined
getProperty(obj, key) ==
    IF key \in DOMAIN obj THEN Some([own |-> obj[key]])
    ELSE IF key \in ObjectPrototypeKeys THEN Some([inherited |-> key])
    ELSE Null

\* policies[leave_type as keyof typeof policies] || policies.other
getLeavePolicy(leave_type) ==
    LET found == getProperty(policies, leave_type)
    IN  IF found # Null THEN found[1] ELSE [own |-> policies.other]

----------------------------------------------------------------------------
(* createDemoUsers.  The method reads the user list once, then loops over   *)
(* demoUsers and awaits a signUp for each one missing from that first read. *)
(* signUp has no await of its own, so its body runs when it is called; the  *)
(* caller is suspended at the await that follows, where other flows run.    *)
(* One step of a flow is the code between two suspensions.                  *)

\* The first index >= from of a demo user missing from existingUsers, or 0
nextMissing(existingUsers, from) ==
    LET missing == { j \in from..Len(demoUsers) :
                        find(existingUsers, demoUsers[j].email) = Null }
    IN  IF missing = {} THEN 0
        ELSE CHOOSE j \in missing : \A k \in missing : j <= k

Flows == 1..NumFlows

IdleFlow ==
    [pc |-> "idle", existingUsers |-> << >>, i |-> 0,
     afterSeed |-> FALSE, added |-> 0, touched |-> FALSE]

\* Run flow f from loop index `from`, up to its next await or to its end
DemoSegment(f, existingUsers, from, afterSeed, added, touched, rnd, skew) ==
    LET j == nextMissing(existingUsers, from)
    IN  IF j = 0
        THEN /\ demo' = [demo EXCEPT ![f] =
                    [pc |-> "done", existingUsers |-> << >>, i |-> 0,
                     afterSeed |-> afterSeed, added |-> added,
                     touched |-> touched]]
             /\ seeded' = TRUE
             /\ last' = [op |-> "createDemoUsers", args |-> <<f>>, from |-> now, at |-> now,
                         pre |-> localStorage, ret |-> Null]
             /\ UNCHANGED <<localStorage, now, ticks, issued>>
        ELSE LET d == demoUsers[j]
                 r == signUp(localStorage, d.email, d.password,
                             [first_name |-> d.first_name,
                              last_name  |-> d.last_name,
                              role       |-> Some(d.role)],
                             now, rnd, now + skew)
             IN  /\ localStorage' = r.ls
                 /\ ticks + skew <= MaxTicks
                 /\ now' = now + skew
                 /\ ticks' = ticks + skew
                 /\ demo' = [demo EXCEPT ![f] =
                        [pc |-> "await", existingUsers |-> existingUsers,
                         i |-> j, afterSeed |-> afterSeed,
                         added |-> IF r.ret.user # Null THEN added + 1 ELSE added,
                         touched |-> touched \/ r.ls # localStorage]]
                 /\ last' = [op |-> "createDemoUsers", args |-> <<f>>,
                             from |-> now, at |-> now', pre |-> localStorage, ret |-> r.ret]
                 /\ UNCHANGED <<seeded, issued>>

\* A call of createDemoUsers: lines 140-164 and the loop up to its first await
CreateDemoUsers(f, rnd, skew) ==
    /\ demo[f].pc \in {"idle", "done"}
    /\ DemoSegment(f, getStoredUsers(localStorage), 1, seeded, 0, FALSE, rnd, skew)

\* The flow resumes after `await this.signUp(...)` with the next iteration
CreateDemoUsersResume(f, rnd, skew) ==
    /\ demo[f].pc = "await"
    /\ DemoSegment(f, demo[f].existingUsers, demo[f].i + 1,
                   demo[f].afterSeed, demo[f].added, demo[f].touched,
                   rnd, skew)

----------------------------------------------------------------------------
(* The calls of the other methods, each one step *)

SignUp(email, password, userData, rnd, skew) ==
    /\ \/ Len(getStoredUsers(localStorage)) < MaxUsers
       \/ find(getStoredUsers(localStorage), email) # Null
    /\ ticks + skew <= MaxTicks
    /\ LET r == signUp(localStorage, email, password, userData,
                       now, rnd, now + skew)
       IN  /\ localStorage' = r.ls
           /\ now' = now + skew
           /\ ticks' = ticks + skew
           /\ last' = [op |-> "signUp", args |-> <<email, password, userData>>,
                       from |-> now, at |-> now', pre |-> localStorage, ret |-> r.ret]
    /\ UNCHANGED <<demo, seeded, issued>>

SignIn(email, password, skew) ==
    /\ ticks + skew <= MaxTicks
    /\ LET r == signIn(localStorage, email, password, now, now + skew)
       IN  /\ localStorage' = r.ls
           /\ now' = now + skew
           /\ ticks' = ticks + skew
           /\ issued' = IF r.ret.session # Null
                        THEN Some([session |-> r.ret.session[1], at |-> now'])
                        ELSE issued
           /\ last' = [op |-> "signIn", args |-> <<email, password>>,
                       from |-> now, at |-> now', pre |-> localStorage, ret |-> r.ret]
    /\ UNCHANGED <<demo, seeded>>

SignOut ==
    LET r == signOut(localStorage)
    IN  /\ localStorage' = r.ls
        /\ last' = [op |-> "signOut", args |-> << >>, from |-> now, at |-> now,
                    pre |-> localStorage, ret |-> r.ret]
        /\ UNCHANGED <<now, ticks, demo, seeded, issued>>

GetSession ==
    LET r == getSession(localStorage, now)
    IN  /\ localStorage' = r.ls
        /\ last' = [op |-> "getSession", args |-> << >>, from |-> now, at |-> now,
                    pre |-> localStorage, ret |-> r.ret]
        /\ UNCHANGED <<now, ticks, demo, seeded, issued>>

GetLeavePolicy(leave_type) ==
    /\ last' = [op |-> "getLeavePolicy", args |-> <<leave_type>>,
                from |-> now, at |-> now, pre |-> localStorage,
                ret |-> getLeavePolicy(leave_type)]
    /\ UNCHANGED <<localStorage, now, ticks, demo, seeded, issued>>

\* Time passes between two operations
Tick(d) ==
    /\ ticks < MaxTicks
    /\ now' = now + d
    /\ ticks' = ticks + 1
    /\ UNCHANGED <<localStorage, demo, seeded, issued, last>>

----------------------------------------------------------------------------
(* Stored values the service did not write.  localStorage is shared by     *)
(* every script of the origin and is editable by hand; getStoredUsers and  *)
(* getStoredSession pass whatever non-empty text they find to JSON.parse,  *)
(* outside any try block.                                                  *)

\* A non-empty text that is not JSON, held under key (written in the shape
\* of the key's other values, a list under the users key and a record
\* under the session key)
MalformedText(key) ==
    IF key = MOCK_USERS_KEY THEN <<<<[text |-> "{oops"]>>>>
    ELSE <<[text |-> "{oops"]>>

\* JSON.parse(text) throws
SyntaxError == [name |-> "SyntaxError"]
ParseThrows(ls, key) == getItem(ls, key) = MalformedText(key)

\* What a call of method op that threw hands to its caller: the exception,
\* or for an async method the promise rejected with it (written in the
\* shape of the method's other results, getSession's being optional values)
Thrown(op, e) ==
    IF op = "getSession" THEN <<[thrown |-> e]>> ELSE [thrown |-> e]

\* Another script, an older version or the user stores the text under key
StoreMalformed(key) ==
    /\ localStorage' = setItem(localStorage, key, MalformedText(key))
    /\ last' = [op |-> "setItem", args |-> <<key>>, from |-> now, at |-> now,
                pre |-> localStorage, ret |-> Null]
    /\ UNCHANGED <<now, ticks, demo, seeded, issued>>

\* The call throws at its first statement
Throw(op, args) ==
    /\ last' = [op |-> op, args |-> args, from |-> now, at |-> now,
                pre |-> localStorage, ret |-> Thrown(op, SyntaxError)]
    /\ UNCHANGED <<localStorage, now, ticks, seeded, issued>>

\* signUp, line 53 first: `const users = this.getStoredUsers()`
SignUpOrThrow(email, password, userData, rnd, skew) ==
    IF ParseThrows(localStorage, MOCK_USERS_KEY)
    THEN Throw("signUp", <<email, password, userData>>) /\ UNCHANGED demo
    ELSE SignUp(email, password, userData, rnd, skew)

\* signIn, line 83 first: `const users = this.getStoredUsers()`
SignInOrThrow(email, password, skew) ==
    IF ParseThrows(localStorage, MOCK_USERS_KEY)
    THEN Throw("signIn", <<email, password>>) /\ UNCHANGED demo
    ELSE SignIn(email, password, skew)

\* getSession, line 114 first: `const session = this.getStoredSession()`
GetSessionOrThrow ==
    IF ParseThrows(localStorage, MOCK_SESSION_KEY)
    THEN Throw("getSession", << >>) /\ UNCHANGED demo
    ELSE GetSession

\* createDemoUsers, line 164 first: `this.getStoredUsers()`
CreateDemoUsersOrThrow(f, rnd, skew) ==
    IF ParseThrows(localStorage, MOCK_USERS_KEY)
    THEN /\ demo[f].pc \in {"idle", "done"}
         /\ Throw("createDemoUsers", <<f>>)
         /\ demo' = [demo EXCEPT ![f] = IdleFlow]
    ELSE CreateDemoUsers(f, rnd, skew)

\* The flow resumes; its next signUp, if there is one, reads the stored list
CreateDemoUsersResumeOrThrow(f, rnd, skew) ==
    IF /\ ParseThrows(localStorage, MOCK_USERS_KEY)
       /\ demo[f].pc = "await"
       /\ nextMissing(demo[f].existingUsers, demo[f].i + 1) # 0
    THEN /\ Throw("createDemoUsers", <<f>>)
         /\ demo' = [demo EXCEPT ![f] = IdleFlow]
    ELSE CreateDemoUsersResume(f, rnd, skew)

----------------------------------------------------------------------------
(* AuthProvider (src/unnamed/part_001).  The Supabase client is outside the *)
(* repository: the model takes from it what the component reads, a session  *)
(* with a user, the outcome of each request, and the notifications it       *)
(* sends to the subscribed listener.  A React state setter takes effect     *)
(* when it is called; the setters called between two suspensions of a flow  *)
(* are one step.  The effect of lines 36-158 runs after the first render    *)
(* and after every render in which isMockMode has changed; until it has     *)
(* run, the subscribed listener is the one of the previous run, whose       *)
(* callback reads the isMockMode of that run.                               *)

\* The emails the callers sign in and sign up with: one that the seeding
\* registers in the fallback, one that it does not
CallEmails == {"admin@demo.com", "p@x.com"}

\* The emails of the sessions that the Supabase client comes to hold other
\* than by a signIn of this component
PrimaryEmails == {"p@x.com"}

\* session.user.user_metadata: every field is optional
user_metadata(email) ==
    CASE email = "p@x.com" -> [first_name |-> "Pat", role |-> "manager"]
      [] email = "q@x.com" -> [first_name |-> "", last_name |-> "Quinn"]
      [] OTHER -> << >>

PrimaryUser(email) ==
    [id |-> <<"uuid", email>>, email |-> email,
     user_metadata |-> user_metadata(email)]

PrimarySession(email) ==
    [user |-> PrimaryUser(email), access_token |-> <<"jwt", email>>]

PrimarySessions == {Null} \cup { Some(PrimarySession(e)) : e \in PrimaryEmails }

\* Two users whose sessions the Supabase client holds one after the other;
\* the second has signed up with an empty first name
RacingEmails == {"p@x.com", "q@x.com"}
RacingSessions == {Null} \cup { Some(PrimarySession(e)) : e \in RacingEmails }

\* How a request to the Supabase client ends: it resolves with data, it
\* resolves with an error, or its promise is rejected
RequestOutcomes == {"ok", "error", "raise"}

PrimaryError == [message |-> "Invalid login credentials"]
FetchFailure == [message |-> "Failed to fetch"]

\* The row of table `profiles` with the user's id
profileRow(u) ==
    [id |-> u.id, email |-> u.email, first_name |-> "Remote",
     last_name |-> "Row", role |-> "manager", department |-> "R&D"]

mockProfile_Defaults(u) ==
    [id |-> u.id, email |-> u.email, first_name |-> "User",
     last_name |-> "Name", role |-> u.role]

\* The profile made from a fallback user
mockProfile(u) ==
    [id |-> u.id, email |-> u.email, first_name |-> u.first_name,
     last_name |-> u.last_name, role |-> u.role]

\* session.user.user_metadata?.key || fallback
metadataOr(md, key, fallback) ==
    IF key \in DOMAIN md /\ md[key] # "" THEN md[key] ELSE fallback

\* Variant of defaultProfile that ignores user_metadata
defaultProfile_NoMetadata(u) ==
    [id |-> u.id, email |-> u.email, first_name |-> "User",
     last_name |-> "Name", role |-> "employee"]

\* The profile made from a Primary user when the row cannot be fetched
defaultProfile(u) ==
    [id |-> u.id,
     email |-> u.email,
     first_name |-> metadataOr(u.user_metadata, "first_name", "User"),
     last_name |-> metadataOr(u.user_metadata, "last_name", "Name"),
     role |-> metadataOr(u.user_metadata, "role", "employee")]

resolveProfile_AlwaysRow(u, outcome) == profileRow(u)

\* What the profile fetch of a Primary user yields
resolveProfile(u, outcome) ==
    IF outcome = "ok" THEN profileRow(u) ELSE defaultProfile(u)

InitialAuth ==
    [user |-> Null, session |-> Null, profile |-> Null,
     loading |-> TRUE, isMockMode |-> FALSE]

\* The state set from a fallback session
mockAuthState(a, s) ==
    [a EXCEPT !.isMockMode = TRUE, !.user = Some(s.user),
              !.session = Some(s), !.profile = Some(mockProfile(s.user))]

IdlePass == [pc |-> "idle", session |-> Null, trace |-> << >>]

IdleCall ==
    [pc |-> "idle", args |-> << >>, error |-> Null, mockResult |-> Null,
     signInResult |-> Null, calledPrimary |-> FALSE, calledFallback |-> FALSE,
     retry |-> FALSE, ret |-> Null]

\* An activation that has returned is gone
EndPass(a) == IF a.pc = "done" THEN IdlePass ELSE a
EndCall(a) == IF a.pc = "done" THEN IdleCall ELSE a

(* The methods of MockAuthService are async functions with no await on a   *)
(* pending promise: a flow that awaits one of them resumes from the        *)
(* microtask queue, which the event loop drains before it takes the next   *)
(* task.  A UI event, a response of the Supabase client or a React render  *)
(* is a task: it finds no such flow suspended.                             *)
MicrotasksPending ==
    \/ \E p \in Flows : passes[p].pc = "seed"
    \/ calls.signIn.pc = "fallback"
    \/ calls.signUp.pc \in {"signUp", "signIn"}
    \/ calls.signOut.pc = "mock"

\* The record of a step of AuthProvider; act is the activation it belongs
\* to, as the step leaves it
Step(op, stage, id, out, ret, act) ==
    /\ clast' = [op |-> op, stage |-> stage, id |-> id, out |-> out, at |-> now,
                 pre |-> auth, store |-> localStorage, ret |-> ret, act |-> act]
    /\ UNCHANGED dashVars

(* The effect, lines 36-158: it calls initializeAuth, which runs up to the  *)
(* first await inside createDemoUsers, then subscribes the listener; the    *)
(* cleanup of the previous run has unsubscribed the previous listener.  A   *)
(* createDemoUsers that throws leaves the pass at its await with a rejected *)
(* promise.                                                                 *)
RunEffect(p, rnd) ==
    /\ ~MicrotasksPending
    /\ IF listener = Null THEN TRUE ELSE listener[1] # auth.isMockMode
    /\ passes[p].pc = "idle"
    /\ \A q \in Flows : q < p => passes[q].pc # "idle"
    /\ CreateDemoUsersOrThrow(p, rnd, 0)
    /\ LET a == [pc |-> "seed", session |-> Null, trace |-> <<"seeding">>]
       IN  /\ passes' = [passes EXCEPT ![p] = a]
           /\ Step("initializeAuth", "seeding", p, "ok", Null, a)
    /\ listener' = Some(auth.isMockMode)
    /\ UNCHANGED <<auth, primary, callbacks, calls>>

\* createDemoUsers goes on, inside initializeAuth
InitSeeding(p, rnd) ==
    /\ passes[p].pc = "seed"
    /\ demo[p].pc = "await"
    /\ CreateDemoUsersResumeOrThrow(p, rnd, 0)
    /\ Step("initializeAuth", "seeding", p, "ok", Null, passes[p])
    /\ UNCHANGED <<auth, listener, passes, primary, callbacks, calls>>

\* A catch (lines 105-108) that leaves loading as it is
InitCatch_LoadingKept(p) ==
    /\ passes[p].pc = "seed"
    /\ demo[p].pc = "idle"
    /\ auth' = auth
    /\ passes' = [passes EXCEPT ![p] = IdlePass]
    /\ Step("initializeAuth", "catch", p, "raise", Null,
            [passes[p] EXCEPT !.pc = "done"])
    /\ UNCHANGED serviceVars
    /\ UNCHANGED <<listener, primary, callbacks, calls>>

\* Lines 105-108: createDemoUsers has thrown, the await of line 41 throws
\* into the catch
InitCatch(p) ==
    /\ passes[p].pc = "seed"
    /\ demo[p].pc = "idle"
    /\ auth' = [auth EXCEPT !.loading = FALSE]
    /\ passes' = [passes EXCEPT ![p] = IdlePass]
    /\ Step("initializeAuth", "catch", p, "raise", Null,
            [passes[p] EXCEPT !.pc = "done"])
    /\ UNCHANGED serviceVars
    /\ UNCHANGED <<listener, primary, callbacks, calls>>

\* Lines 44-62: after `await mockAuth.createDemoUsers()`; a getSession that
\* throws goes to the catch of lines 105-108
InitFallbackCheck(p) ==
    /\ passes[p].pc = "seed"
    /\ demo[p].pc = "done"
    /\ GetSessionOrThrow
    /\ IF ParseThrows(localStorage, MOCK_SESSION_KEY)
       THEN LET a == [passes[p] EXCEPT !.pc = "done",
                        !.trace = Append(@, "fallback")]
            IN  /\ auth' = [auth EXCEPT !.loading = FALSE]
                /\ passes' = [passes EXCEPT ![p] = EndPass(a)]
                /\ Step("initializeAuth", "fallback", p, "raise", Null, a)
       ELSE LET mockSession == getSession(localStorage, now).ret
                a == IF mockSession # Null
                     THEN [passes[p] EXCEPT !.pc = "done",
                             !.trace = Append(@, "fallback")]
                     ELSE [passes[p] EXCEPT !.pc = "getSession",
                             !.trace = @ \o <<"fallback", "primary">>]
            IN  /\ auth' = IF mockSession # Null
                           THEN [mockAuthState(auth, mockSession[1])
                                     EXCEPT !.loading = FALSE]
                           ELSE auth
                /\ passes' = [passes EXCEPT ![p] = EndPass(a)]
                /\ Step("initializeAuth", "fallback", p, "ok", Null, a)
    /\ UNCHANGED <<listener, primary, callbacks, calls>>

\* Lines 62-75 and 104-108: `await supabase.auth.getSession()` is over
InitPrimaryCheck(p, outcome) ==
    /\ ~MicrotasksPending
    /\ passes[p].pc = "getSession"
    /\ LET found == outcome = "ok" /\ primary # Null
           a == IF found
                THEN [passes[p] EXCEPT !.pc = "profile", !.session = primary,
                        !.trace = Append(@, "profile")]
                ELSE [passes[p] EXCEPT !.pc = "done"]
       IN  /\ auth' = IF found
                      THEN [auth EXCEPT !.session = primary,
                                        !.user = Some(primary[1].user)]
                      ELSE [auth EXCEPT !.loading = FALSE]
           /\ passes' = [passes EXCEPT ![p] = EndPass(a)]
           /\ Step("initializeAuth", "primary", p, outcome, Null, a)
    /\ UNCHANGED serviceVars
    /\ UNCHANGED <<listener, primary, callbacks, calls>>

\* Lines 77-104: the profile fetch is over
InitProfile(p, outcome) ==
    /\ ~MicrotasksPending
    /\ passes[p].pc = "profile"
    /\ LET u == passes[p].session[1].user
       IN  auth' = [auth EXCEPT
                !.isMockMode = IF outcome = "ok" THEN @ ELSE TRUE,
                !.profile = Some(resolveProfile(u, outcome)),
                !.loading = FALSE]
    /\ passes' = [passes EXCEPT ![p] = IdlePass]
    /\ Step("initializeAuth", "profile", p, outcome, Null,
            [passes[p] EXCEPT !.pc = "done"])
    /\ UNCHANGED serviceVars
    /\ UNCHANGED <<listener, primary, callbacks, calls>>

(* The listener, lines 114-155.  The Supabase client calls the subscribed   *)
(* callback when its session changes; the callback reads the isMockMode of  *)
(* the render in which it was subscribed.                                   *)
Deliver(s, cap) ==
    /\ primary' = s
    /\ IF listener # Null /\ ~listener[1]
       THEN /\ s # Null => Len(callbacks) < cap
            /\ auth' = [auth EXCEPT
                    !.session = s,
                    !.user = IF s # Null THEN Some(s[1].user) ELSE Null,
                    !.profile = IF s # Null THEN @ ELSE Null]
            /\ callbacks' = IF s # Null THEN Append(callbacks, s[1].user)
                            ELSE callbacks
       ELSE UNCHANGED <<auth, callbacks>>

Notified(s) == Deliver(s, MaxCallbacks)

\* The session of the Supabase client changes: a sign-in or a sign-out in
\* another tab, a token refresh
NotifyUpTo(s, cap) ==
    /\ ~MicrotasksPending
    /\ Deliver(s, cap)
    /\ Step("notify", "callback", 0, "ok", Null, IdleCall)
    /\ UNCHANGED serviceVars
    /\ UNCHANGED <<listener, passes, calls>>

Notify(s) == NotifyUpTo(s, MaxCallbacks)

\* Lines 128-149: the profile fetch of a callback is over; the step records
\* the session.user of that callback
NotifyProfile(i, outcome) ==
    /\ ~MicrotasksPending
    /\ i \in 1..Len(callbacks)
    /\ auth' = [auth EXCEPT
            !.profile = Some(resolveProfile(callbacks[i], outcome))]
    /\ callbacks' = [j \in 1..(Len(callbacks) - 1) |->
                        IF j < i THEN callbacks[j] ELSE callbacks[j + 1]]
    /\ Step("notify", "profile", i, outcome, Null,
            [IdleCall EXCEPT !.pc = "done", !.args = <<callbacks[i]>>])
    /\ UNCHANGED serviceVars
    /\ UNCHANGED <<listener, passes, primary, calls>>

(* The three calls come from the event handlers of the components under   *)
(* the provider, which run once the first effect has run.                  *)

(* signIn, lines 160-197 *)

\* The latest step is a signIn or a signUp returning an error
LastCallFailed ==
    /\ clast.op \in {"signIn", "signUp"}
    /\ clast.ret # Null
    /\ clast.ret[1].error # Null

\* Lines 160-166: the call, up to `await supabase.auth.signInWithPassword`;
\* the activation records whether the caller is retrying after a failure
AuthSignIn(email, password) ==
    /\ ~MicrotasksPending
    /\ listener # Null
    /\ calls.signIn.pc = "idle"
    /\ LET a == [IdleCall EXCEPT !.pc = "primary", !.args = <<email, password>>,
                                 !.calledPrimary = TRUE,
                                 !.retry = LastCallFailed]
       IN  /\ calls' = [calls EXCEPT !.signIn = a]
           /\ Step("signIn", "call", 0, "ok", Null, a)
    /\ UNCHANGED serviceVars
    /\ UNCHANGED <<auth, listener, passes, primary, callbacks>>

\* Lines 168-175 and 193-196: the request is over.  On success the client
\* holds the new session and has notified the listener.
AuthSignInPrimary(outcome) ==
    /\ ~MicrotasksPending
    /\ calls.signIn.pc = "primary"
    /\ LET email == calls.signIn.args[1]
           password == calls.signIn.args[2]
           ret == IF outcome = "ok" THEN Some([error |-> Null])
                  ELSE IF outcome = "raise"
                       THEN Some([error |-> Some(FetchFailure)])
                       ELSE Null
           a == IF outcome = "error"
                THEN [calls.signIn EXCEPT
                        !.pc = "fallback",
                        !.error = Some(PrimaryError),
                        !.calledFallback = TRUE,
                        !.mockResult =
                            IF ParseThrows(localStorage, MOCK_USERS_KEY)
                            THEN Some(Thrown("signIn", SyntaxError))
                            ELSE Some(signIn(localStorage, email, password,
                                             now, now).ret)]
                ELSE [calls.signIn EXCEPT !.pc = "done", !.ret = ret]
       IN  /\ CASE outcome = "ok" ->
                    /\ Notified(Some(PrimarySession(email)))
                    /\ UNCHANGED serviceVars
               [] outcome = "error" ->
                    /\ SignInOrThrow(email, password, 0)
                    /\ UNCHANGED <<auth, primary, callbacks>>
               [] outcome = "raise" ->
                    /\ UNCHANGED serviceVars
                    /\ UNCHANGED <<auth, primary, callbacks>>
           /\ calls' = [calls EXCEPT !.signIn = EndCall(a)]
           /\ Step("signIn", "primary", 0, outcome, ret, a)
    /\ UNCHANGED <<listener, passes>>

errorOr_PrimaryFirst(mockError, error) ==
    IF error # Null THEN error ELSE mockError

\* mockResult.error || error
errorOr(mockError, error) == IF mockError # Null THEN mockError ELSE error

\* Lines 177-192: after `await mockAuth.signIn(email, password)`; if it
\* has thrown, the catch of lines 193-196
AuthSignInFallback ==
    /\ calls.signIn.pc = "fallback"
    /\ LET mockResult == calls.signIn.mockResult[1]
           thrown == mockResult = Thrown("signIn", SyntaxError)
           ok == ~thrown /\ mockResult.user # Null /\ mockResult.session # Null
           ret == CASE thrown -> [error |-> Some(SyntaxError)]
                    [] ok -> [error |-> Null]
                    [] OTHER ->
                        [error |-> errorOr(mockResult.error, calls.signIn.error)]
           a == [calls.signIn EXCEPT !.pc = "done", !.ret = Some(ret)]
       IN  /\ auth' = IF ok
                      THEN [mockAuthState(auth, mockResult.session[1])
                                EXCEPT !.user = mockResult.user]
                      ELSE auth
           /\ calls' = [calls EXCEPT !.signIn = EndCall(a)]
           /\ Step("signIn", "fallback", 0, "ok", Some(ret), a)
    /\ UNCHANGED serviceVars
    /\ UNCHANGED <<listener, passes, primary, callbacks>>

(* signUp, lines 199-231 *)

\* Lines 199-203: the call, up to the await of mockAuth.signUp, whose body
\* has run
AuthSignUp(email, password, userData, rnd) ==
    /\ ~MicrotasksPending
    /\ listener # Null
    /\ calls.signUp.pc = "idle"
    /\ SignUpOrThrow(email, password, userData, rnd, 0)
    /\ LET a == [IdleCall EXCEPT !.pc = "signUp", !.args = <<email, password>>,
                    !.calledFallback = TRUE,
                    !.mockResult =
                        IF ParseThrows(localStorage, MOCK_USERS_KEY)
                        THEN Some(Thrown("signUp", SyntaxError))
                        ELSE Some(signUp(localStorage, email, password,
                                         userData, now, rnd, now).ret)]
       IN  /\ calls' = [calls EXCEPT !.signUp = a]
           /\ Step("signUp", "call", 0, "ok", Null, a)
    /\ UNCHANGED <<auth, listener, passes, primary, callbacks>>

\* Lines 205-210 and 226: after the await of mockAuth.signUp; if it has
\* thrown, the catch of lines 227-230
AuthSignUpCreated ==
    /\ calls.signUp.pc = "signUp"
    /\ LET thrown == calls.signUp.mockResult[1] = Thrown("signUp", SyntaxError)
           mockResult == IF thrown
                         THEN [user |-> Null, error |-> Some(SyntaxError)]
                         ELSE calls.signUp.mockResult[1]
           email == calls.signUp.args[1]
           password == calls.signUp.args[2]
           ret == [error |-> mockResult.error]
           a == IF mockResult.user # Null
                THEN [calls.signUp EXCEPT
                        !.pc = "signIn",
                        !.signInResult =
                            Some(signIn(localStorage, email, password,
                                        now, now).ret)]
                ELSE [calls.signUp EXCEPT !.pc = "done", !.ret = Some(ret)]
       IN  /\ IF mockResult.user # Null
              THEN /\ auth' = [auth EXCEPT !.isMockMode = TRUE]
                   /\ SignIn(email, password, 0)
                   /\ Step("signUp", "created", 0, "ok", Null, a)
              ELSE /\ UNCHANGED serviceVars
                   /\ UNCHANGED auth
                   /\ Step("signUp", "created", 0, "error", Some(ret), a)
           /\ calls' = [calls EXCEPT !.signUp = EndCall(a)]
    /\ UNCHANGED <<listener, passes, primary, callbacks>>

\* Lines 211-223: after the await of mockAuth.signIn
AuthSignUpSignedIn ==
    /\ calls.signUp.pc = "signIn"
    /\ LET signInResult == calls.signUp.signInResult[1]
           a == [calls.signUp EXCEPT !.pc = "done",
                                     !.ret = Some([error |-> Null])]
       IN  /\ auth' = IF signInResult.user # Null /\ signInResult.session # Null
                      THEN [auth EXCEPT
                              !.user = signInResult.user,
                              !.session = signInResult.session,
                              !.profile = Some(mockProfile(signInResult.user[1]))]
                      ELSE auth
           /\ calls' = [calls EXCEPT !.signUp = EndCall(a)]
           /\ Step("signUp", "signedIn", 0, "ok", Some([error |-> Null]), a)
    /\ UNCHANGED serviceVars
    /\ UNCHANGED <<listener, passes, primary, callbacks>>

(* signOut, lines 233-243 *)

\* Lines 233-235 and 240-241: the call, up to its await
AuthSignOut ==
    /\ ~MicrotasksPending
    /\ listener # Null
    /\ calls.signOut.pc = "idle"
    /\ LET a == IF auth.isMockMode
                THEN [IdleCall EXCEPT !.pc = "mock", !.calledFallback = TRUE]
                ELSE [IdleCall EXCEPT !.pc = "primary", !.calledPrimary = TRUE]
       IN  /\ calls' = [calls EXCEPT !.signOut = a]
           /\ Step("signOut", "call", 0, "ok", Null, a)
    /\ IF auth.isMockMode THEN SignOut ELSE UNCHANGED serviceVars
    /\ UNCHANGED <<auth, listener, passes, primary, callbacks>>

\* Lines 236-239: after `await mockAuth.signOut()`
AuthSignOutMock ==
    /\ calls.signOut.pc = "mock"
    /\ auth' = [auth EXCEPT !.user = Null, !.session = Null,
                            !.profile = Null, !.isMockMode = FALSE]
    /\ calls' = [calls EXCEPT !.signOut = IdleCall]
    /\ Step("signOut", "mock", 0, "ok", Null,
            [calls.signOut EXCEPT !.pc = "done"])
    /\ UNCHANGED serviceVars
    /\ UNCHANGED <<listener, passes, primary, callbacks>>

\* Line 241: `await supabase.auth.signOut()` is over.  On success the client
\* holds no session and has notified the listener.
AuthSignOutPrimary(outcome) ==
    /\ ~MicrotasksPending
    /\ calls.signOut.pc = "primary"
    /\ IF outcome = "ok"
       THEN Notified(Null)
       ELSE UNCHANGED <<auth, primary, callbacks>>
    /\ calls' = [calls EXCEPT !.signOut = IdleCall]
    /\ Step("signOut", "primary", 0, outcome, Null,
            [calls.signOut EXCEPT !.pc = "done"])
    /\ UNCHANGED serviceVars
    /\ UNCHANGED <<listener, passes>>

----------------------------------------------------------------------------
(* Dashboard (part_000:607-766).  fetchDashboardData reads the remote       *)
(* tables through the Supabase client, one request per await; the tables    *)
(* change between two requests as other users submit and review requests.   *)

Fetches == 1..MaxFetches

RecentLimit == 5
\* The rows of the remote table profiles
profiles ==
    << [id |-> "u-admin", first_name |-> "Ada", last_name |-> "Admin",
        role |-> "admin", manager_id |-> Null],
       [id |-> "u-mgr", first_name |-> "Max", last_name |-> "Manager",
        role |-> "manager", manager_id |-> Null],
       [id |-> "u-emp", first_name |-> "Eve", last_name |-> "Employee",
        role |-> "employee", manager_id |-> Some("u-mgr")],
       [id |-> "u-solo", first_name |-> "Sol", last_name |-> "Solo",
        role |-> "employee", manager_id |-> Null] >>

\* The profile useAuth() gives the Dashboard: one per role
DashboardProfiles == { profiles[i] : i \in 1..3 }
\* Who submits leave requests
EmployeeIds == {"u-emp", "u-solo"}

InitialStats ==
    [totalRequests |-> 0, pendingRequests |-> 0, approvedRequests |-> 0,
     rejectedRequests |-> 0, totalEmployees |-> Null]

InitialDashboard ==
    [stats |-> InitialStats, recentRequests |-> << >>, loading |-> TRUE]

IdleFetch ==
    [pc |-> "idle", profile |-> Null, requests |-> Null,
     totalEmployees |-> Null, totalRequests |-> Null,
     pendingRequests |-> Null, approvedRequests |-> Null,
     teamMembers |-> Null, teamRequests |-> << >>]

\* An activation that has returned
DoneFetch == [IdleFetch EXCEPT !.pc = "done"]

Reverse(rows) == [i \in 1..Len(rows) |-> rows[Len(rows) + 1 - i]]

\* .order('created_at', { ascending: false }).limit(5)
orderDescLimit(rows) ==
    LET newestFirst == Reverse(rows)
    IN  IF Len(newestFirst) <= RecentLimit THEN newestFirst
        ELSE SubSeq(newestFirst, 1, RecentLimit)

\* .eq(column, value) on leave_requests
eqEmployee(rows, id) ==
    LET Mine(r) == r.employee_id = id IN SelectSeq(rows, Mine)

\* .select('*', { count: 'exact', head: true }).eq('status', status)
countStatus(rows, status) ==
    Cardinality({ i \in 1..Len(rows) : rows[i].status = status })

\* The same, counting every row whatever its status
countStatus_All(rows, status) == Len(rows)

\* What a request resolves to: its data or count, or null with an error
resolved(outcome, value) == IF outcome = "ok" THEN Some(value) ELSE Null

\* count || 0,  requests || []
orZero(count) == IF count = Null THEN 0 ELSE count[1]
orEmpty(rows) == IF rows = Null THEN << >> ELSE rows[1]

\* profiles!leave_requests_employee_id_fkey(first_name, last_name)
joinProfile(r) ==
    LET Owner(p) == p.id = r.employee_id
        owners == SelectSeq(profiles, Owner)
    IN  IF owners = << >> THEN Null ELSE Some(owners[1])

\* `${first_name} ${last_name}` or 'Unknown', as the pieces of the string
employeeName(p) ==
    IF p = Null THEN <<"Unknown">> ELSE <<p[1].first_name, " ", p[1].last_name>>

\* The rows of setRecentRequests
recentRequest(r, name) ==
    [id |-> r.id, leave_type |-> r.leave_type, start_date |-> r.start_date,
     end_date |-> r.end_date, status |-> r.status, employee_name |-> name]

\* A response of the Supabase client is a task: it finds no flow suspended
\* at Promise.all of resolved promises (lines 715-727)
NamesPending == \E f \in Fetches : fetches[f].pc = "names"

\* A step of fetchDashboardData: activation a and React state d as it
\* leaves them
Resume(f, stage, out, a, d) ==
    /\ fetches' = [fetches EXCEPT ![f] = a]
    /\ dashboard' = d
    /\ dlast' = [op |-> "fetchDashboardData", stage |-> stage, id |-> f,
                 out |-> out, role |-> fetches[f].profile[1].role,
                 completed |-> a.pc = "done"]
    /\ UNCHANGED leave_requests
    /\ UNCHANGED <<serviceVars, providerVars>>

\* Lines 761-765: a request has raised; catch, then finally
Caught(f, stage) ==
    Resume(f, stage, "raise", DoneFetch, [dashboard EXCEPT !.loading = FALSE])

\* Lines 618-622: the effect calls fetchDashboardData when profile is set,
\* and again when the signed-in user's profile object changes; it runs up
\* to its first await
FetchDashboardData(f, p) ==
    /\ ~NamesPending
    /\ fetches[f].pc = "idle"
    /\ \A g \in Fetches : g < f => fetches[g].pc # "idle"
    /\ dlast.role \in {"none", p.role}
    /\ fetches' = [fetches EXCEPT ![f] =
                      [IdleFetch EXCEPT !.pc = "recent", !.profile = Some(p)]]
    /\ dlast' = [op |-> "fetchDashboardData", stage |-> "call", id |-> f,
                 out |-> "ok", role |-> p.role, completed |-> FALSE]
    /\ UNCHANGED <<leave_requests, dashboard>>
    /\ UNCHANGED <<serviceVars, providerVars>>

IsAdmin(f) == fetches[f].profile # Null /\ fetches[f].profile[1].role = "admin"
IsManager(f) == fetches[f].profile # Null /\ fetches[f].profile[1].role = "manager"
IsOther(f) == fetches[f].profile # Null /\ ~IsAdmin(f) /\ ~IsManager(f)

\* Lines 626-640: the admin's recent requests have arrived
AdminRecent(f, outcome) ==
    /\ ~NamesPending
    /\ IsAdmin(f) /\ fetches[f].pc = "recent"
    /\ IF outcome = "raise" THEN Caught(f, "recent")
       ELSE Resume(f, "recent", outcome,
                [fetches[f] EXCEPT !.pc = "employees",
                    !.requests = resolved(outcome, orderDescLimit(leave_requests))],
                dashboard)

\* Lines 642-644: the count of profiles has arrived
AdminEmployees(f, outcome) ==
    /\ ~NamesPending
    /\ IsAdmin(f) /\ fetches[f].pc = "employees"
    /\ IF outcome = "raise" THEN Caught(f, "employees")
       ELSE Resume(f, "employees", outcome,
                [fetches[f] EXCEPT !.pc = "total",
                    !.totalEmployees = resolved(outcome, Len(profiles))],
                dashboard)

\* Lines 646-648: the count of leave_requests has arrived
AdminTotal(f, outcome) ==
    /\ ~NamesPending
    /\ IsAdmin(f) /\ fetches[f].pc = "total"
    /\ IF outcome = "raise" THEN Caught(f, "total")
       ELSE Resume(f, "total", outcome,
                [fetches[f] EXCEPT !.pc = "pending",
                    !.totalRequests = resolved(outcome, Len(leave_requests))],
                dashboard)

\* Lines 650-653: the count of pending requests has arrived
AdminPending(f, outcome) ==
    /\ ~NamesPending
    /\ IsAdmin(f) /\ fetches[f].pc = "pending"
    /\ IF outcome = "raise" THEN Caught(f, "pending")
       ELSE Resume(f, "pending", outcome,
                [fetches[f] EXCEPT !.pc = "approved",
                    !.pendingRequests =
                        resolved(outcome, countStatus(leave_requests, "pending"))],
                dashboard)

\* Lines 655-658: the count of approved requests has arrived
AdminApproved(f, outcome) ==
    /\ ~NamesPending
    /\ IsAdmin(f) /\ fetches[f].pc = "approved"
    /\ IF outcome = "raise" THEN Caught(f, "approved")
       ELSE Resume(f, "approved", outcome,
                [fetches[f] EXCEPT !.pc = "rejected",
                    !.approvedRequests =
                        resolved(outcome, countStatus(leave_requests, "approved"))],
                dashboard)

\* Lines 660-682: the count of rejected requests has arrived; setStats,
\* setRecentRequests, finally
AdminRejected(f, outcome) ==
    /\ ~NamesPending
    /\ IsAdmin(f) /\ fetches[f].pc = "rejected"
    /\ IF outcome = "raise" THEN Caught(f, "rejected")
       ELSE LET a == fetches[f]
                rejectedRequests ==
                    resolved(outcome, countStatus(leave_requests, "rejected"))
                requests == orEmpty(a.requests)
            IN  Resume(f, "rejected", outcome, DoneFetch,
                    [stats |->
                        [totalRequests    |-> orZero(a.totalRequests),
                         pendingRequests  |-> orZero(a.pendingRequests),
                         approvedRequests |-> orZero(a.approvedRequests),
                         rejectedRequests |-> orZero(rejectedRequests),
                         totalEmployees   |-> Some(orZero(a.totalEmployees))],
                     recentRequests |->
                        [i \in 1..Len(requests) |->
                            recentRequest(requests[i],
                                employeeName(joinProfile(requests[i])))],
                     loading |-> FALSE])

\* Lines 685-689: the manager's recent requests have arrived
ManagerRecent(f, outcome) ==
    /\ ~NamesPending
    /\ IsManager(f) /\ fetches[f].pc = "recent"
    /\ IF outcome = "raise" THEN Caught(f, "recent")
       ELSE Resume(f, "recent", outcome,
                [fetches[f] EXCEPT !.pc = "team",
                    !.requests = resolved(outcome, orderDescLimit(leave_requests))],
                dashboard)

\* Lines 691-727: the team members have arrived; the team's requests are
\* counted, setStats, and Promise.all is awaited
ManagerTeam(f, outcome) ==
    /\ ~NamesPending
    /\ IsManager(f) /\ fetches[f].pc = "team"
    /\ IF outcome = "raise" THEN Caught(f, "team")
       ELSE LET me == fetches[f].profile[1]
                Managed(p) == p.manager_id = Some(me.id)
                teamMembers == resolved(outcome, SelectSeq(profiles, Managed))
                members == orEmpty(teamMembers)
                teamMemberIds == { members[i].id : i \in 1..Len(members) }
                InTeam(r) == r.employee_id \in teamMemberIds
                                \/ r.employee_id = me.id
                teamRequests == SelectSeq(orEmpty(fetches[f].requests), InTeam)
            IN  Resume(f, "team", outcome,
                    [fetches[f] EXCEPT !.pc = "names",
                        !.teamMembers = teamMembers,
                        !.teamRequests = teamRequests],
                    [dashboard EXCEPT !.stats =
                        [totalRequests    |-> Len(teamRequests),
                         pendingRequests  |-> countStatus(teamRequests, "pending"),
                         approvedRequests |-> countStatus(teamRequests, "approved"),
                         rejectedRequests |-> countStatus(teamRequests, "rejected"),
                         totalEmployees   |-> Null]])

\* Lines 715-729: Promise.all has resolved; setRecentRequests, finally
ManagerNames(f) ==
    /\ IsManager(f) /\ fetches[f].pc = "names"
    /\ LET members == orEmpty(fetches[f].teamMembers)
           teamRequests == fetches[f].teamRequests
           employee(r) ==
               LET Is(m) == m.id = r.employee_id
                   found == SelectSeq(members, Is)
               IN  IF found = << >> THEN Null ELSE Some(found[1])
       IN  Resume(f, "names", "ok", DoneFetch,
               [dashboard EXCEPT
                   !.recentRequests =
                       [i \in 1..Len(teamRequests) |->
                           recentRequest(teamRequests[i],
                               employeeName(employee(teamRequests[i])))],
                   !.loading = FALSE])

\* Lines 730-758: the employee's own requests have arrived; they are
\* counted, setStats, setRecentRequests, finally
EmployeeRecent(f, outcome) ==
    /\ ~NamesPending
    /\ IsOther(f) /\ fetches[f].pc = "recent"
    /\ IF outcome = "raise" THEN Caught(f, "recent")
       ELSE LET me == fetches[f].profile[1]
                requests == orEmpty(resolved(outcome,
                                orderDescLimit(eqEmployee(leave_requests, me.id))))
            IN  Resume(f, "recent", outcome, DoneFetch,
                    [stats |->
                        [totalRequests    |-> Len(requests),
                         pendingRequests  |-> countStatus(requests, "pending"),
                         approvedRequests |-> countStatus(requests, "approved"),
                         rejectedRequests |-> countStatus(requests, "rejected"),
                         totalEmployees   |-> Null],
                     recentRequests |->
                        [i \in 1..Len(requests) |->
                            recentRequest(requests[i], Null)],
                     loading |-> FALSE])

\* An employee submits a leave request: a row is inserted, pending
InsertRequest(e) ==
    /\ Len(leave_requests) < MaxRequests
    /\ leave_requests' = Append(leave_requests,
            [id |-> Len(leave_requests) + 1, employee_id |-> e,
             leave_type |-> "annual", start_date |-> "2024-07-01",
             end_date |-> "2024-07-05", status |-> "pending"])
    /\ UNCHANGED <<fetches, dashboard, dlast>>
    /\ UNCHANGED <<serviceVars, providerVars>>

\* A manager or an admin reviews a pending request
ReviewRequest(i, status) ==
    /\ i \in 1..Len(leave_requests)
    /\ leave_requests[i].status = "pending"
    /\ leave_requests' = [leave_requests EXCEPT ![i].status = status]
    /\ UNCHANGED <<fetches, dashboard, dlast>>
    /\ UNCHANGED <<serviceVars, providerVars>>

----------------------------------------------------------------------------

\* A fresh browser profile: both keys absent, no call made yet; the
\* component has rendered once and its effect has not run
Init ==
    /\ localStorage = [k \in {MOCK_USERS_KEY, MOCK_SESSION_KEY} |-> Null]
    /\ now = 0
    /\ ticks = 0
    /\ demo = [f \in Flows |-> IdleFlow]
    /\ seeded = FALSE
    /\ issued = Null
    /\ last = [op |-> "none", args |-> << >>, from |-> 0, at |-> 0,
               pre |-> [k \in {MOCK_USERS_KEY, MOCK_SESSION_KEY} |-> Null],
               ret |-> Null]
    /\ auth = InitialAuth
    /\ listener = Null
    /\ passes = [p \in Flows |-> IdlePass]
    /\ primary = Null
    /\ callbacks = << >>
    /\ calls = [signIn |-> IdleCall, signUp |-> IdleCall, signOut |-> IdleCall]
    /\ clast = [op |-> "none", stage |-> "none", id |-> 0, out |-> "ok", at |-> 0,
                pre |-> InitialAuth,
                store |-> [k \in {MOCK_USERS_KEY, MOCK_SESSION_KEY} |-> Null],
                ret |-> Null, act |-> IdleCall]
    /\ leave_requests = << >>
    /\ fetches = [f \in Fetches |-> IdleFetch]
    /\ dashboard = InitialDashboard
    /\ dlast = [op |-> "none", stage |-> "none", id |-> 0, out |-> "ok",
                role |-> "none", completed |-> FALSE]

----------------------------------------------------------------------------
(* Specifications.  The callers' inputs are narrowed per specification so   *)
(* that each one explores in full the part of the service its properties    *)
(* are about; the operations themselves are the same in all of them.        *)

NoRole == [first_name |-> "A", last_name |-> "B", role |-> Null]

\* Seeding: concurrent createDemoUsers flows interleaved, at their awaits,
\* with every other method; callers sign up demo and other emails alike.
NextSeed ==
    \/ \E f \in Flows : CreateDemoUsers(f, "k3f", 0) /\ UNCHANGED componentVars
    \/ \E f \in Flows : CreateDemoUsersResume(f, "k3f", 0) /\ UNCHANGED componentVars
    \/ \E e \in Emails : SignUp(e, "demo123", NoRole, "z9q", 0) /\ UNCHANGED componentVars
    \/ SignIn("admin@demo.com", "demo123", 0) /\ UNCHANGED componentVars
    \/ SignOut /\ UNCHANGED componentVars
    \/ GetSession /\ UNCHANGED componentVars

SpecSeed == Init /\ [][NextSeed]_vars

\* Accounts: sign-up with every kind of role and sign-in with every
\* password, for emails that are and are not registered.
AccountEmails == {"a@x.com", "admin@demo.com"}

NextAccounts ==
    \/ \E e \in AccountEmails, p \in Passwords, u \in UserDataInputs,
          rnd \in RandomSuffixes : SignUp(e, p, u, rnd, 0) /\ UNCHANGED componentVars
    \/ \E e \in AccountEmails, p \in Passwords : SignIn(e, p, 0) /\ UNCHANGED componentVars
    \/ SignOut /\ UNCHANGED componentVars
    \/ GetSession /\ UNCHANGED componentVars

SpecAccounts == Init /\ [][NextAccounts]_vars

\* Sessions: the session slot as time passes.
NextSession ==
    \/ \E e \in AccountEmails, k \in ClockSkews :
          SignUp(e, "pw", NoRole, "k3f", k) /\ UNCHANGED componentVars
    \/ \E e \in AccountEmails, p \in Passwords, k \in ClockSkews :
          SignIn(e, p, k) /\ UNCHANGED componentVars
    \/ SignOut /\ UNCHANGED componentVars
    \/ GetSession /\ UNCHANGED componentVars
    \/ \E d \in ClockSteps : Tick(d) /\ UNCHANGED componentVars

SpecSession == Init /\ [][NextSession]_vars

\* Leave policies: the lookup, for keys of the table and others, on stores
\* with and without users and a session.
LeaveTypeInputs ==
    DOMAIN policies \cup {"maternity", "", "constructor", "toString"}

NextPolicy ==
    \/ \E k \in LeaveTypeInputs : GetLeavePolicy(k) /\ UNCHANGED componentVars
    \/ \E e \in AccountEmails, rnd \in RandomSuffixes :
          SignUp(e, "pw", NoRole, rnd, 0) /\ UNCHANGED componentVars
    \/ \E e \in AccountEmails : SignIn(e, "pw", 0) /\ UNCHANGED componentVars
    \/ SignOut /\ UNCHANGED componentVars

SpecPolicy == Init /\ [][NextPolicy]_vars

\* Stored values: the methods on stores in which either key may hold a
\* text that is not JSON.
StoreKeys == {MOCK_USERS_KEY, MOCK_SESSION_KEY}

NextStorage ==
    \/ \E k \in StoreKeys : StoreMalformed(k) /\ UNCHANGED componentVars
    \/ \E e \in AccountEmails :
          SignUpOrThrow(e, "pw", NoRole, "z9q", 0) /\ UNCHANGED componentVars
    \/ \E e \in AccountEmails : SignInOrThrow(e, "pw", 0) /\ UNCHANGED componentVars
    \/ SignOut /\ UNCHANGED componentVars
    \/ GetSessionOrThrow /\ UNCHANGED componentVars
    \/ \E f \in Flows : CreateDemoUsersOrThrow(f, "k3f", 0) /\ UNCHANGED componentVars
    \/ \E f \in Flows :
          CreateDemoUsersResumeOrThrow(f, "k3f", 0) /\ UNCHANGED componentVars

SpecStorage == Init /\ [][NextStorage]_vars

\* Initialization: the effect and its passes, on a store in which an
\* earlier visit has or has not left users and a session, as the Supabase
\* client's session changes; time passes between two tasks.
NextInit ==
    \/ \E p \in Flows : RunEffect(p, "k3f")
    \/ \E p \in Flows : InitSeeding(p, "k3f")
    \/ \E p \in Flows : InitFallbackCheck(p)
    \/ \E p \in Flows, o \in RequestOutcomes : InitPrimaryCheck(p, o)
    \/ \E p \in Flows, o \in RequestOutcomes : InitProfile(p, o)
    \/ \E s \in PrimarySessions : Notify(s)
    \/ \E i \in 1..MaxCallbacks, o \in RequestOutcomes : NotifyProfile(i, o)
    \/ listener = Null /\ SignUp("a@x.com", "pw", NoRole, "z9q", 0)
                       /\ UNCHANGED componentVars
    \/ listener = Null /\ SignIn("a@x.com", "pw", 0) /\ UNCHANGED componentVars
    \/ \E d \in {1, SESSION_TTL_MS} :
          /\ ~MicrotasksPending
          /\ Tick(d)
          /\ UNCHANGED componentVars

SpecInit == Init /\ [][NextInit]_vars

\* Sign-in: the provider's signIn for an email the seeding registers in the
\* fallback and one it does not, interleaved at its awaits with the effect,
\* the passes and the listener.
NextSignIn ==
    \/ \E p \in Flows : RunEffect(p, "k3f")
    \/ \E p \in Flows : InitSeeding(p, "k3f")
    \/ \E p \in Flows : InitFallbackCheck(p)
    \/ \E p \in Flows, o \in RequestOutcomes : InitPrimaryCheck(p, o)
    \/ \E p \in Flows, o \in RequestOutcomes : InitProfile(p, o)
    \/ \E s \in PrimarySessions : Notify(s)
    \/ \E i \in 1..MaxCallbacks, o \in RequestOutcomes : NotifyProfile(i, o)
    \/ \E e \in CallEmails : AuthSignIn(e, "demo123")
    \/ \E o \in RequestOutcomes : AuthSignInPrimary(o)
    \/ AuthSignInFallback

SpecSignIn == Init /\ [][NextSignIn]_vars

\* Sign-up: the provider's signUp, interleaved at its awaits with the
\* effect, the passes and the listener.
NextSignUp ==
    \/ \E p \in Flows : RunEffect(p, "k3f")
    \/ \E p \in Flows : InitSeeding(p, "k3f")
    \/ \E p \in Flows : InitFallbackCheck(p)
    \/ \E p \in Flows, o \in RequestOutcomes : InitPrimaryCheck(p, o)
    \/ \E p \in Flows, o \in RequestOutcomes : InitProfile(p, o)
    \/ \E s \in PrimarySessions : Notify(s)
    \/ \E i \in 1..MaxCallbacks, o \in RequestOutcomes : NotifyProfile(i, o)
    \/ \E e \in CallEmails : AuthSignUp(e, "demo123", NoRole, "z9q")
    \/ AuthSignUpCreated
    \/ AuthSignUpSignedIn

SpecSignUp == Init /\ [][NextSignUp]_vars

\* Sign-out: the provider's signOut in and out of mock mode, on a store in
\* which an earlier visit has or has not left a session.
NextSignOut ==
    \/ \E p \in Flows : RunEffect(p, "k3f")
    \/ \E p \in Flows : InitSeeding(p, "k3f")
    \/ \E p \in Flows : InitFallbackCheck(p)
    \/ \E p \in Flows, o \in RequestOutcomes : InitPrimaryCheck(p, o)
    \/ \E p \in Flows, o \in RequestOutcomes : InitProfile(p, o)
    \/ \E s \in PrimarySessions : Notify(s)
    \/ \E i \in 1..MaxCallbacks, o \in RequestOutcomes : NotifyProfile(i, o)
    \/ listener = Null /\ SignUp("a@x.com", "pw", NoRole, "z9q", 0)
                       /\ UNCHANGED componentVars
    \/ listener = Null /\ SignIn("a@x.com", "pw", 0) /\ UNCHANGED componentVars
    \/ AuthSignOut
    \/ AuthSignOutMock
    \/ \E o \in RequestOutcomes : AuthSignOutPrimary(o)

SpecSignOut == Init /\ [][NextSignOut]_vars

\* Notifications: the Supabase client's session changes from one user to
\* another while the profile fetches of earlier callbacks are pending.
NextNotify ==
    \/ \E p \in Flows : RunEffect(p, "k3f")
    \/ \E p \in Flows : InitSeeding(p, "k3f")
    \/ \E p \in Flows : InitFallbackCheck(p)
    \/ \E p \in Flows, o \in RequestOutcomes : InitPrimaryCheck(p, o)
    \/ \E p \in Flows, o \in RequestOutcomes : InitProfile(p, o)
    \/ \E s \in RacingSessions : NotifyUpTo(s, MaxRacing)
    \/ \E i \in 1..MaxRacing, o \in RequestOutcomes : NotifyProfile(i, o)

SpecNotify == Init /\ [][NextNotify]_vars

\* Failures: signIn and signUp for every outcome of the Supabase client and
\* of MockAuthService, on stores whose user list may have become a text
\* that is not JSON, and the signIn that follows a failure.
NextRecover ==
    \/ \E p \in Flows : RunEffect(p, "k3f")
    \/ \E p \in Flows : InitSeeding(p, "k3f")
    \/ \E p \in Flows : InitCatch(p)
    \/ \E p \in Flows : InitFallbackCheck(p)
    \/ \E p \in Flows, o \in RequestOutcomes : InitPrimaryCheck(p, o)
    \/ \E p \in Flows, o \in RequestOutcomes : InitProfile(p, o)
    \/ /\ ~MicrotasksPending
       /\ StoreMalformed(MOCK_USERS_KEY)
       /\ UNCHANGED componentVars
    \/ \E e \in CallEmails : AuthSignIn(e, "demo123")
    \/ \E o \in RequestOutcomes : AuthSignInPrimary(o)
    \/ AuthSignInFallback
    \/ \E e \in CallEmails : AuthSignUp(e, "demo123", NoRole, "z9q")
    \/ AuthSignUpCreated
    \/ AuthSignUpSignedIn

SpecRecover == Init /\ [][NextRecover]_vars

----------------------------------------------------------------------------
(* Properties.  `last` holds the latest call: last.pre is the store it      *)
(* found, last.ret what it returned, and localStorage the store it left     *)
(* (the clock alone moves between two calls).                               *)

StoredUsers == getStoredUsers(localStorage)
StoredSession == getStoredSession(localStorage)
PreUsers == getStoredUsers(last.pre)
PreSession == getStoredSession(last.pre)

EmailStored(users, email) == \E i \in 1..Len(users) : users[i].email = email

\* C1: signUp with an email already in the stored user list returns the
\* error with code 'user_already_exists', returns no user, and leaves the
\* stored user list as it was, in length and in contents.
C1_SignUpExistingEmailRejected ==
    (last.op = "signUp" /\ EmailStored(PreUsers, last.args[1])) =>
        /\ last.ret.error # Null
        /\ last.ret.error[1].code = "user_already_exists"
        /\ last.ret.user = Null
        /\ Len(StoredUsers) = Len(PreUsers)
        /\ StoredUsers = PreUsers
        /\ localStorage[MOCK_USERS_KEY] = last.pre[MOCK_USERS_KEY]

\* A signUp for a registered email was rejected on a store holding two users
C1_Witness ==
    /\ last.op = "signUp"
    /\ EmailStored(PreUsers, last.args[1])
    /\ Len(PreUsers) = 2
    /\ last.ret.error # Null

\* C2: no two records of the stored user list have the same email, after
\* any interleaving of signUp, signIn, signOut, getSession and
\* createDemoUsers (suspended at its awaits) from an empty store.
C2_EmailsUnique ==
    \A i, j \in 1..Len(StoredUsers) :
        i # j => StoredUsers[i].email # StoredUsers[j].email

\* A createDemoUsers flow, resumed after another caller registered a demo
\* email missing from the flow's first read, had its signUp rejected
C2_Witness ==
    /\ last.op = "createDemoUsers"
    /\ last.ret # Null
    /\ last.ret.error # Null
    /\ Len(StoredUsers) >= 2

\* C3: a successful signUp returns and stores a user whose role is the
\* requested role when that is employee, manager or admin, and employee
\* in every other case (absent, empty, or not a declared role).
C3_RoleRequestedOrEmployee ==
    (last.op = "signUp" /\ last.ret.user # Null) =>
        LET requested == last.args[3].role
            expected  == IF requested # Null /\ requested[1] \in MockUserRoles
                         THEN requested[1] ELSE "employee"
        IN  /\ last.ret.user[1].role = expected
            /\ StoredUsers[Len(StoredUsers)].role = expected

\* C4: getSession returns the stored session exactly when the time it
\* reads is strictly before expires_at, and absent when the time is at or
\* after expires_at, the instant now = expires_at included.
C4_ValidIffStrictlyBeforeExpiry ==
    (last.op = "getSession" /\ PreSession # Null) =>
        /\ last.at < PreSession[1].expires_at => last.ret = PreSession
        /\ last.at >= PreSession[1].expires_at => last.ret = Null

\* C5: for a session created by signIn at time T, getSession before
\* T + 24h returns that session and keeps it; getSession after T + 24h
\* returns absent and removes the session key, and getSession on an absent
\* slot returns absent and leaves it absent.
C5_LazyExpiryEvicts ==
    last.op = "getSession" =>
        IF PreSession = Null
        THEN /\ last.ret = Null
             /\ getItem(localStorage, MOCK_SESSION_KEY) = Null
        ELSE /\ issued # Null
             /\ PreSession[1] = issued[1].session
             /\ last.at < issued[1].at + 24 * 60 * 60 * 1000 =>
                    /\ last.ret = Some(issued[1].session)
                    /\ StoredSession = Some(issued[1].session)
             /\ last.at > issued[1].at + 24 * 60 * 60 * 1000 =>
                    /\ last.ret = Null
                    /\ getItem(localStorage, MOCK_SESSION_KEY) = Null
                    /\ getSession(localStorage, now).ret = Null

\* getSession found a session older than 24 hours, and evicted it
C5_Witness ==
    /\ last.op = "getSession"
    /\ PreSession # Null
    /\ last.at > issued[1].at + 24 * 60 * 60 * 1000
    /\ last.ret = Null
    /\ StoredSession = Null

\* C6: signIn with an email matching no stored user returns the error with
\* code 'invalid_credentials', no user and no session, and leaves the
\* session slot and the user list as they were.
C6_SignInUnknownEmailRejected ==
    (last.op = "signIn" /\ ~EmailStored(PreUsers, last.args[1])) =>
        /\ last.ret.error # Null
        /\ last.ret.error[1].code = "invalid_credentials"
        /\ last.ret.user = Null
        /\ last.ret.session = Null
        /\ StoredSession = PreSession
        /\ StoredUsers = PreUsers
        /\ localStorage = last.pre

\* A signIn for an unknown email failed while another user's session was
\* active, and the session is still there
C6_Witness ==
    /\ last.op = "signIn"
    /\ ~EmailStored(PreUsers, last.args[1])
    /\ last.ret.error # Null
    /\ PreSession # Null
    /\ StoredSession # Null

\* C7: the outcome of signIn does not depend on the password: the call that
\* ran and the same call from the same store with any other password
\* return the same result and leave the same store, and a signIn with a
\* stored email succeeds, binding the stored user, whatever the password.
C7_SignInIgnoresPassword ==
    last.op = "signIn" =>
        /\ \A p \in Passwords :
              LET other == signIn(last.pre, last.args[1], p,
                                  last.from, last.at)
              IN  /\ other.ret = last.ret
                  /\ other.ls = localStorage
        /\ EmailStored(PreUsers, last.args[1]) =>
              /\ last.ret.error = Null
              /\ last.ret.user = find(PreUsers, last.args[1])
              /\ last.ret.session # Null
              /\ last.ret.session[1].user = last.ret.user[1]

\* A signIn with a password other than the demo password succeeded
C7_Witness ==
    /\ last.op = "signIn"
    /\ last.args[2] = "anything"
    /\ last.ret.error = Null
    /\ last.ret.session # Null

\* C8: the session slot holds one session: a successful signIn stores the
\* session it returns, bound to the matched user and expiring 24 hours
\* after the time it read, in place of whatever was stored before; so a
\* stored session is always the one of the latest successful signIn.
C8_SlotHoldsLatestSignIn ==
    /\ (last.op = "signIn" /\ last.ret.session # Null) =>
          /\ StoredSession = last.ret.session
          /\ last.ret.session[1].user = find(PreUsers, last.args[1])[1]
          /\ last.ret.session[1].expires_at = last.at + 24 * 60 * 60 * 1000
    /\ StoredSession # Null =>
          /\ issued # Null
          /\ StoredSession = Some(issued[1].session)
          /\ issued[1].session.expires_at = issued[1].at + 24 * 60 * 60 * 1000

\* A signIn succeeded while the session of another user was stored, and
\* the slot now holds the new session
C8_Witness ==
    /\ last.op = "signIn"
    /\ last.ret.session # Null
    /\ PreSession # Null
    /\ PreSession[1].user.email # last.args[1]
    /\ StoredSession = last.ret.session

\* C9: signOut never fails and is idempotent: whatever the session slot
\* held (a live session, an expired one, nothing), after the call the slot
\* is absent and the user list is as before, and a second call returns the
\* same and leaves the store exactly as the first left it.
C9_SignOutIdempotent ==
    last.op = "signOut" =>
        /\ last.ret = Null
        /\ getItem(localStorage, MOCK_SESSION_KEY) = Null
        /\ StoredSession = Null
        /\ localStorage[MOCK_USERS_KEY] = last.pre[MOCK_USERS_KEY]
        /\ signOut(localStorage).ls = localStorage
        /\ signOut(localStorage).ret = last.ret

\* signOut was called on a slot holding an expired session
C9_Witness ==
    /\ last.op = "signOut"
    /\ PreSession # Null
    /\ PreSession[1].expires_at < last.at
    /\ Len(StoredUsers) >= 1
    /\ StoredSession = Null

DemoCount(users, email) == Cardinality({ i \in 1..Len(users) : users[i].email = email })

\* C10: createDemoUsers is idempotent: once a call has completed, each of
\* the three demo emails is stored exactly once (three demo users, not
\* six), and a call started after that adds no user and changes nothing
\* in the store.
C10_CreateDemoUsersIdempotent ==
    /\ seeded => \A e \in DemoEmails : DemoCount(StoredUsers, e) = 1
    /\ (seeded /\ \A i \in 1..Len(StoredUsers) : StoredUsers[i].email \in DemoEmails)
          => Len(StoredUsers) = 3
    /\ \A f \in Flows :
          demo[f].afterSeed => demo[f].added = 0 /\ ~demo[f].touched

\* A second createDemoUsers call, started after a first one completed on an
\* empty store, has completed too; the store holds the three demo users
C10_Witness ==
    /\ \E f \in Flows : demo[f].pc = "done" /\ demo[f].afterSeed
    /\ Len(StoredUsers) = 3
    /\ \A i \in 1..3 :
          /\ StoredUsers[i].email = demoUsers[i].email
          /\ StoredUsers[i].first_name = demoUsers[i].first_name
          /\ StoredUsers[i].role = demoUsers[i].role

\* C11: getSession on a stored session whose expiry is still ahead returns
\* that session as stored and changes nothing in storage, neither the
\* session slot nor the user list.
C11_GetSessionLiveSessionNoEffect ==
    (last.op = "getSession" /\ PreSession # Null
        /\ last.at < PreSession[1].expires_at) =>
        /\ last.ret = PreSession
        /\ StoredSession = PreSession
        /\ StoredUsers = PreUsers
        /\ localStorage = last.pre

\* getSession returned a live session one millisecond before its expiry
C11_Witness ==
    /\ last.op = "getSession"
    /\ PreSession # Null
    /\ last.at = PreSession[1].expires_at - 1
    /\ last.ret = PreSession

\* C12: getLeavePolicy returns the table entry for sick, vacation,
\* family_emergency, personal and other, and for every other key exactly
\* the entry of other (quota 0, 1 consecutive day, approval required); it
\* has no effect on the stored users or session.
C12_LeavePolicyOrOther ==
    last.op = "getLeavePolicy" =>
        LET key == last.args[1]
            sameEntry(e) ==
                /\ DOMAIN last.ret = {"own"}
                /\ last.ret.own = e
        IN  /\ key = "sick" => sameEntry([annual_quota |-> 10,
                  max_consecutive_days |-> 5, requires_approval |-> FALSE])
            /\ key = "vacation" => sameEntry([annual_quota |-> 20,
                  max_consecutive_days |-> 14, requires_approval |-> TRUE])
            /\ key = "family_emergency" => sameEntry([annual_quota |-> 5,
                  max_consecutive_days |-> 3, requires_approval |-> TRUE])
            /\ key = "personal" => sameEntry([annual_quota |-> 5,
                  max_consecutive_days |-> 2, requires_approval |-> TRUE])
            /\ key \notin {"sick", "vacation", "family_emergency", "personal"}
                  => sameEntry([annual_quota |-> 0,
                  max_consecutive_days |-> 1, requires_approval |-> TRUE])
            /\ localStorage = last.pre

\* C13: from any store and for any email e not stored in it, signUp(e)
\* without a role, then signIn(e) with any password, then getSession
\* before the expiry returns a session whose user has email e and role
\* employee.
C13_SignUpSignInGetSession ==
    \A e \in Emails, p \in Passwords, rnd \in RandomSuffixes,
       dt \in {0, 1, 24 * 60 * 60 * 1000 - 1} :
        ~EmailStored(StoredUsers, e) =>
            LET up  == signUp(localStorage, e, p, NoRole, now, rnd, now)
                in  == signIn(up.ls, e, p, now, now)
                got == getSession(in.ls, now + dt)
            IN  /\ up.ret.user # Null
                /\ in.ret.session # Null
                /\ got.ret # Null
                /\ got.ret[1].user.email = e
                /\ got.ret[1].user.role = "employee"

\* The three calls were made: the user signed up without a role holds the
\* session that getSession returned some time after the signIn
C13_Witness ==
    /\ last.op = "getSession"
    /\ last.ret # Null
    /\ issued # Null
    /\ last.at > issued[1].at
    /\ last.ret[1].user.email = "a@x.com"
    /\ last.ret[1].user.role = "employee"
    /\ last.ret[1].user.first_name = NoRole.first_name

----------------------------------------------------------------------------
(* Properties of AuthProvider.  `clast` holds its latest step: clast.pre is *)
(* the React state the step found, clast.store the store it found, auth and *)
(* localStorage what it left.                                               *)

InitOrder == <<"seeding", "fallback", "primary", "profile">>

IsPrefix(s, t) == Len(s) <= Len(t) /\ \A i \in 1..Len(s) : s[i] = t[i]

\* The session an initialization step found in the store
FoundSession == getStoredSession(clast.store)

\* C14: when the fallback session check of an initialization pass finds a
\* stored session that has not expired, the pass ends there in fallback
\* mode, the exposed user and session are those of the stored session and
\* the profile is the five fields id, email, first_name, last_name, role of
\* its user; that pass has asked the Primary neither for its session nor
\* for a profile; and every pass goes through seeding, fallback session
\* check, primary session check, profile fetch in that order.
C14_InitFallbackSession ==
    /\ \A p \in Flows : IsPrefix(passes[p].trace, InitOrder)
    /\ clast.op = "initializeAuth" => IsPrefix(clast.act.trace, InitOrder)
    /\ (/\ clast.op = "initializeAuth"
        /\ clast.stage = "fallback"
        /\ FoundSession # Null
        /\ clast.at < FoundSession[1].expires_at) =>
            LET s == FoundSession[1]
            IN  /\ auth.isMockMode
                /\ auth.session = Some(s)
                /\ auth.user = Some(s.user)
                /\ auth.profile = Some([id |-> s.user.id,
                                        email |-> s.user.email,
                                        first_name |-> s.user.first_name,
                                        last_name |-> s.user.last_name,
                                        role |-> s.user.role])
                /\ clast.act.pc = "done"
                /\ clast.act.trace = <<"seeding", "fallback">>
                /\ passes[clast.id] = IdlePass

\* A pass has found an unexpired session left by an earlier visit, some
\* time after it was issued
C14_Witness ==
    /\ clast.op = "initializeAuth"
    /\ clast.stage = "fallback"
    /\ FoundSession # Null
    /\ clast.at < FoundSession[1].expires_at
    /\ clast.at > FoundSession[1].expires_at - SESSION_TTL_MS
    /\ auth.isMockMode
    /\ clast.act.pc = "done"

\* The Primary session an initialization pass found, and its user
PassSession == clast.act.session
PassUser == PassSession[1].user

SignInEmail == clast.act.args[1]

\* C16: signIn asks the Primary first; when the Primary accepts, the
\* fallback signIn has not been called and the store is as it was, and
\* signIn ends out of fallback mode with the user and session of the
\* Primary sign-in exposed, whatever the state before the call.
C16_SignInPrimaryFirst ==
    /\ calls.signIn.pc # "idle" => calls.signIn.calledPrimary
    /\ calls.signIn.pc = "primary" => ~calls.signIn.calledFallback
    /\ (clast.op = "signIn" /\ clast.stage = "primary" /\ clast.out = "ok") =>
            /\ ~clast.act.calledFallback
            /\ localStorage = clast.store
            /\ clast.ret = Some([error |-> Null])
            /\ ~auth.isMockMode
            /\ auth.session = Some(PrimarySession(SignInEmail))
            /\ auth.user = Some(PrimaryUser(SignInEmail))

\* What mockAuth.signIn returned to the latest call of the provider's signIn
SignInMockResult == clast.act.mockResult[1]

\* C17: whenever the Primary sign-in fails, by an error or by an exception,
\* signIn calls the fallback signIn; and when the fallback signIn succeeds,
\* signIn ends in fallback mode with the user and session the fallback
\* returned and the profile made from that user, and returns error = null.
C17_SignInFallsBack ==
    /\ (clast.op = "signIn" /\ clast.stage = "primary" /\ clast.out # "ok") =>
            clast.act.calledFallback
    /\ (clast.op = "signIn" /\ clast.stage = "fallback"
            /\ SignInMockResult.user # Null) =>
            /\ auth.isMockMode
            /\ auth.user = SignInMockResult.user
            /\ auth.session = SignInMockResult.session
            /\ auth.profile = Some(mockProfile(SignInMockResult.user[1]))
            /\ clast.ret = Some([error |-> Null])

\* C18: when the Primary sign-in and the fallback sign-in both fail, no
\* step of signIn has changed user, session, profile, loading or the
\* fallback-mode flag, and signIn returns the fallback's error, the one
\* with code 'invalid_credentials', not the Primary's.
C18_SignInBothFail ==
    /\ (clast.op = "signIn" /\ clast.stage = "call") => auth = clast.pre
    /\ (clast.op = "signIn" /\ clast.stage = "primary" /\ clast.out = "error") =>
            auth = clast.pre
    /\ (clast.op = "signIn" /\ clast.stage = "fallback"
            /\ SignInMockResult.user = Null) =>
            /\ clast.act.error = Some(PrimaryError)
            /\ auth = clast.pre
            /\ clast.ret = Some([error |-> Some(InvalidCredentials)])
            /\ clast.ret[1].error[1].code = "invalid_credentials"
            /\ clast.act.pc = "done"

\* A signed-in fallback user has tried to sign in as someone neither
\* provider knows
C18_Witness ==
    /\ clast.op = "signIn"
    /\ clast.stage = "fallback"
    /\ SignInMockResult.user = Null
    /\ clast.pre.isMockMode
    /\ clast.pre.user # Null
    /\ clast.pre.user[1].email # SignInEmail
    /\ clast.act.pc = "done"

\* What mockAuth.signUp returned to the latest call of the provider's signUp
SignUpMockResult == clast.act.mockResult[1]

\* C19: signUp never asks the Primary.  It calls the fallback signUp; when
\* that succeeds it turns fallback mode on and calls the fallback signIn,
\* and ends in fallback mode with the user just created and that user's
\* session and profile exposed, returning error = null; when the fallback
\* signUp fails it returns the fallback's error and has changed none of
\* user, session, profile and the fallback-mode flag.
C19_SignUpFallbackOnly ==
    /\ ~calls.signUp.calledPrimary
    /\ calls.signUp.pc # "idle" => calls.signUp.calledFallback
    /\ clast.op = "signUp" =>
            ~clast.act.calledPrimary /\ clast.act.calledFallback
    /\ (clast.op = "signUp" /\ clast.stage = "call") => auth = clast.pre
    /\ (clast.op = "signUp" /\ clast.stage = "created") =>
            IF SignUpMockResult.user # Null
            THEN /\ clast.act.pc = "signIn"
                 /\ clast.act.signInResult # Null
                 /\ auth = [clast.pre EXCEPT !.isMockMode = TRUE]
            ELSE /\ clast.act.pc = "done"
                 /\ clast.act.signInResult = Null
                 /\ clast.ret = Some([error |-> Some(UserAlreadyExists)])
                 /\ auth = clast.pre
    /\ (clast.op = "signUp" /\ clast.stage = "signedIn") =>
            LET created == SignUpMockResult.user[1]
            IN  /\ auth.isMockMode
                /\ auth.user = Some(created)
                /\ auth.session # Null
                /\ auth.session[1].user = created
                /\ auth.session = getStoredSession(clast.store)
                /\ auth.profile = Some([id |-> created.id,
                                        email |-> clast.act.args[1],
                                        first_name |-> created.first_name,
                                        last_name |-> created.last_name,
                                        role |-> created.role])
                /\ clast.ret = Some([error |-> Null])

\* A sign-up has replaced the exposed Primary user by the user it created
C19_Witness ==
    /\ clast.op = "signUp"
    /\ clast.stage = "signedIn"
    /\ clast.pre.user = Some(PrimaryUser("p@x.com"))
    /\ auth.user # Null
    /\ auth.user[1].email = clast.act.args[1]
    /\ auth.user[1].id[1] = "mock"
    /\ auth.isMockMode

\* The latest step is one in which the Supabase client has notified the
\* listener of a session change
NotificationStep ==
    \/ clast.op = "notify" /\ clast.stage = "callback"
    \/ clast.op \in {"signIn", "signOut"} /\ clast.stage = "primary"
            /\ clast.out = "ok"

\* C20: a notification that arrives while fallback mode is active changes
\* none of user, session and profile, whichever listener it is delivered
\* to, the one subscribed since fallback mode was entered or the one
\* subscribed before.
C20_NotificationsIgnoredInFallback ==
    (NotificationStep /\ clast.pre.isMockMode) =>
        /\ auth.user = clast.pre.user
        /\ auth.session = clast.pre.session
        /\ auth.profile = clast.pre.profile

----------------------------------------------------------------------------
(* The provider of an exposed value.  A user of the Supabase client has    *)
(* user_metadata and no role; a session of MockAuthService has expires_at. *)

IsPrimaryUser(u) == "user_metadata" \in DOMAIN u
IsMockSession(s) == "expires_at" \in DOMAIN s

\* C21: in every state the exposed user and session, when both present,
\* come from the same provider, and whenever a user is exposed isMockMode
\* is true exactly when that user is a fallback user.
C21_OneProviderDrives ==
    /\ (auth.user # Null /\ auth.session # Null) =>
            (IsPrimaryUser(auth.user[1]) <=> ~IsMockSession(auth.session[1]))
    /\ auth.user # Null =>
            (auth.isMockMode <=> ~IsPrimaryUser(auth.user[1]))

\* The coordinator states of the spec, read from the exposed state
AuthenticatedFallback(a) ==
    a.isMockMode /\ a.user # Null /\ ~IsPrimaryUser(a.user[1])
AuthenticatedPrimary(a) ==
    a.user # Null /\ IsPrimaryUser(a.user[1])
Anonymous(a) ==
    a.user = Null /\ a.session = Null /\ a.profile = Null /\ ~a.isMockMode

\* C22: a signOut called while a fallback user is exposed in fallback mode
\* calls MockAuthService.signOut and not the Supabase client, and when it
\* returns the session key is absent, user, session and profile are null
\* and isMockMode is false.
C22_SignOutFallback ==
    (clast.op = "signOut" /\ AuthenticatedFallback(clast.pre)) =>
        /\ clast.act.calledFallback
        /\ ~clast.act.calledPrimary
        /\ last.op = "signOut"
        /\ StoredSession = Null
        /\ clast.stage = "call" => clast.act.pc = "mock"
        /\ clast.stage # "call" => (clast.stage = "mock" /\ Anonymous(auth))

\* It has returned, and the session key held a session when it was called
C22_Witness ==
    /\ clast.op = "signOut"
    /\ clast.stage = "mock"
    /\ AuthenticatedFallback(clast.pre)
    /\ clast.pre.profile # Null
    /\ PreSession # Null
    /\ Anonymous(auth)

\* C23: a signOut called while a Primary user is exposed calls the Supabase
\* client's signOut and nothing else: the call changes none of user,
\* session, profile and localStorage, and when the request is over the
\* exposed state has changed only as the listener changes it on the
\* notification of a null session.
C23_SignOutPrimary ==
    /\ (clast.op = "signOut" /\ clast.stage = "call"
            /\ AuthenticatedPrimary(clast.pre)) =>
        /\ clast.act.pc = "primary"
        /\ clast.act.calledPrimary
        /\ ~clast.act.calledFallback
        /\ auth = clast.pre
        /\ localStorage = clast.store
    /\ (clast.op = "signOut" /\ clast.stage = "primary") =>
        /\ localStorage = clast.store
        /\ \/ auth = clast.pre
           \/ /\ clast.out = "ok"
              /\ ~listener[1]
              /\ auth = [clast.pre EXCEPT !.user = Null, !.session = Null,
                                          !.profile = Null]

\* The user of the session the Supabase client last notified
NotifiedUser == IF primary # Null THEN Some(primary[1].user) ELSE Null

\* C24: a notification delivered to the subscribed listener while
\* isMockMode is false sets session and user to the notified ones, and the
\* profile to null when the session is null; when the profile fetch of a
\* callback is over, the profile is the fetched row or the default profile
\* of that callback's user.
C24_NotificationsHandled ==
    /\ (NotificationStep /\ listener # Null /\ ~clast.pre.isMockMode) =>
        /\ auth.session = primary
        /\ auth.user = NotifiedUser
        /\ primary = Null => auth.profile = Null
    /\ (clast.op = "notify" /\ clast.stage = "profile") =>
        /\ auth.profile # Null
        /\ auth.profile[1].id = clast.act.args[1].id
        /\ auth.profile[1] \in {profileRow(clast.act.args[1]),
                                defaultProfile(clast.act.args[1])}

\* The user whose profile the latest step has resolved, and the resolved
\* profile
ResolvedFor ==
    IF clast.op = "notify" THEN clast.act.args[1] ELSE clast.act.session[1].user
ResolveStep ==
    /\ clast.stage = "profile"
    /\ clast.op \in {"notify", "initializeAuth"}

\* C25: when a profile fetch is over, in initializeAuth or in the listener,
\* the profile is the fetched row as it is if the fetch succeeded; if it
\* returned an error or raised, the profile has the id and email of the
\* session's user and first_name, last_name and role from user_metadata,
\* with "User", "Name" and "employee" for the fields user_metadata lacks.
C25_ProfileResolution ==
    ResolveStep =>
        LET u == ResolvedFor
            md == u.user_metadata
            field(key, dflt) == IF key \in DOMAIN md THEN md[key] ELSE dflt
        IN  /\ auth.profile # Null
            /\ clast.out = "ok" => auth.profile[1] = profileRow(u)
            /\ clast.out \in {"error", "raise"} =>
                    auth.profile[1] =
                        [id |-> u.id, email |-> u.email,
                         first_name |-> field("first_name", "User"),
                         last_name |-> field("last_name", "Name"),
                         role |-> field("role", "employee")]

\* C25, amended: the same, with "User", "Name" and "employee" for the
\* fields user_metadata lacks and for those it holds as an empty string.
C25_ProfileResolutionAmended ==
    ResolveStep =>
        LET u == ResolvedFor
            md == u.user_metadata
            field(key, dflt) ==
                IF key \in DOMAIN md
                THEN IF md[key] = "" THEN dflt ELSE md[key]
                ELSE dflt
        IN  /\ auth.profile # Null
            /\ clast.out = "ok" => auth.profile[1] = profileRow(u)
            /\ clast.out \in {"error", "raise"} =>
                    auth.profile[1] =
                        [id |-> u.id, email |-> u.email,
                         first_name |-> field("first_name", "User"),
                         last_name |-> field("last_name", "Name"),
                         role |-> field("role", "employee")]

\* A fetch has failed in the listener for a user with an empty first name,
\* a last name and no role
C25_Witness ==
    /\ ResolveStep
    /\ clast.op = "notify"
    /\ clast.out = "raise"
    /\ ResolvedFor.email = "q@x.com"
    /\ auth.profile[1].first_name = "User"
    /\ auth.profile[1].last_name = "Quinn"
    /\ auth.profile[1].role = "employee"

\* No profile fetch is pending, in a pass or in a callback of the listener
Quiescent ==
    /\ callbacks = << >>
    /\ \A p \in Flows : passes[p].pc # "profile"

\* C26: in every state with no profile fetch pending, the profile is
\* present exactly when the user is, and then it has the user's id.
C26_ProfileFollowsUser ==
    Quiescent =>
        /\ (auth.profile # Null) <=> (auth.user # Null)
        /\ auth.user # Null => auth.profile[1].id = auth.user[1].id

\* C27: when the last pending profile fetch of the listener is over, with
\* fallback mode off and the exposed session and user those of the latest
\* notification, the profile is that of the latest notification's user,
\* in whichever order the fetches of the callbacks have completed.
C27_LastNotificationWins ==
    (/\ clast.op = "notify" /\ clast.stage = "profile"
     /\ Quiescent
     /\ listener = Some(FALSE) /\ ~auth.isMockMode
     /\ primary # Null /\ auth.session = primary /\ auth.user = NotifiedUser) =>
        /\ auth.profile # Null
        /\ auth.profile[1].id = primary[1].user.id

----------------------------------------------------------------------------
(* Stored values that are not JSON *)

\* C28: when the key a method reads holds a text that is not JSON, the
\* method does not throw and answers as it does when the key is absent:
\* signIn finds no user, signUp registers the email, getSession returns
\* null, createDemoUsers registers a demo user.
C28_MalformedIsNoData ==
    /\ last.op \in {"signUp", "signIn", "getSession", "createDemoUsers"} =>
            last.ret # Thrown(last.op, SyntaxError)
    /\ (last.op = "signIn" /\ ParseThrows(last.pre, MOCK_USERS_KEY)) =>
            last.ret = [user |-> Null, session |-> Null,
                        error |-> Some(InvalidCredentials)]
    /\ (last.op \in {"signUp", "createDemoUsers"}
            /\ ParseThrows(last.pre, MOCK_USERS_KEY)) =>
            /\ last.ret.user # Null
            /\ Len(StoredUsers) = 1
    /\ (last.op = "getSession" /\ ParseThrows(last.pre, MOCK_SESSION_KEY)) =>
            last.ret = Null

----------------------------------------------------------------------------
(* Failures of signIn and signUp *)

CallReturned ==
    /\ clast.op \in {"signIn", "signUp"}
    /\ clast.act.pc = "done"

\* The email of the call is registered in a user list that parses
ValidFallbackCredentials ==
    /\ ~ParseThrows(localStorage, MOCK_USERS_KEY)
    /\ find(StoredUsers, clast.act.args[1]) # Null

\* signIn and signUp return {error} whatever the Supabase client and
\* MockAuthService do, and a call that returns an error has set nothing
C29_ErrorsReturned ==
    /\ CallReturned =>
        /\ clast.ret # Null
        /\ clast.ret[1] \in
                { [error |-> e] :
                    e \in {Null, Some(InvalidCredentials), Some(UserAlreadyExists),
                           Some(FetchFailure), Some(SyntaxError)} }
    /\ (CallReturned /\ clast.ret[1].error # Null) =>
        /\ auth = clast.pre
        /\ calls[clast.op] = IdleCall

\* C29: signIn and signUp return {error} for every outcome of the Supabase
\* client and of MockAuthService, thrown exceptions included; a call that
\* returns an error leaves the exposed state as it was; and a signIn that
\* follows a failure, for an email registered in the fallback, returns
\* error = null.
C29_NoAuthErrorFatal ==
    /\ C29_ErrorsReturned
    /\ (CallReturned /\ clast.op = "signIn" /\ clast.act.retry
            /\ ValidFallbackCredentials) =>
        clast.ret[1].error = Null

----------------------------------------------------------------------------
(* Initialization that finds no session *)

\* A pass of initializeAuth returns after the fallback check and the
\* Supabase client's getSession have both found no session
InitFoundNeither ==
    /\ clast.op = "initializeAuth"
    /\ clast.stage = "primary"
    /\ clast.act.pc = "done"
    /\ primary = Null

\* C30: when a pass of initializeAuth has found neither a valid fallback
\* session nor a Primary session, it returns with user, session and profile
\* null and isMockMode false.
C30_NeitherSessionIsAnonymous ==
    InitFoundNeither => Anonymous(auth)

----------------------------------------------------------------------------
(* Termination of initializeAuth *)

\* Initialization on any store: an earlier visit has or has not left a
\* session, either key may hold a text that is not JSON, the Supabase client
\* holds a session or none and answers, fails or raises.
NextInitLive ==
    \/ \E p \in Flows : RunEffect(p, "k3f")
    \/ \E p \in Flows : InitSeeding(p, "k3f")
    \/ \E p \in Flows : InitCatch(p)
    \/ \E p \in Flows : InitFallbackCheck(p)
    \/ \E p \in Flows, o \in RequestOutcomes : InitPrimaryCheck(p, o)
    \/ \E p \in Flows, o \in RequestOutcomes : InitProfile(p, o)
    \/ \E s \in PrimarySessions : Notify(s)
    \/ \E i \in 1..MaxCallbacks, o \in RequestOutcomes : NotifyProfile(i, o)
    \/ listener = Null /\ SignUpOrThrow("a@x.com", "pw", NoRole, "z9q", 0)
                       /\ UNCHANGED componentVars
    \/ listener = Null /\ SignInOrThrow("a@x.com", "pw", 0)
                       /\ UNCHANGED componentVars
    \/ \E k \in StoreKeys :
          /\ ~MicrotasksPending
          /\ StoreMalformed(k)
          /\ UNCHANGED componentVars

(* A pass suspended at an await of a MockAuthService method resumes from    *)
(* the microtask queue, which the event loop always drains; a pass          *)
(* suspended at a request of the Supabase client resumes when the request   *)
(* returns or raises, which it is assumed to do.                            *)
PassesResume ==
    \A p \in Flows :
        /\ WF_vars(InitSeeding(p, "k3f"))
        /\ WF_vars(InitCatch(p))
        /\ WF_vars(InitFallbackCheck(p))
        /\ WF_vars(\E o \in RequestOutcomes : InitPrimaryCheck(p, o))
        /\ WF_vars(\E o \in RequestOutcomes : InitProfile(p, o))

SpecInitLive == Init /\ [][NextInitLive]_vars /\ PassesResume

\* C31: every pass of initializeAuth that has started eventually returns
\* with loading false, whichever path it takes.
C31_InitTerminates ==
    \A p \in Flows :
        (passes[p].pc # "idle") ~> (passes[p].pc = "idle" /\ ~auth.loading)

\* A pass has returned through the catch of lines 105-108
C31_Witness ==
    /\ clast.op = "initializeAuth"
    /\ clast.out = "raise"
    /\ clast.act.pc = "done"
    /\ ~auth.loading

----------------------------------------------------------------------------
(* Sessions left behind by signOut *)

\* signOut has returned normally, called while a user was exposed
SignOutCompleted ==
    /\ clast.op = "signOut"
    /\ clast.act.pc = "done"
    /\ clast.out = "ok"
    /\ clast.pre.user # Null

\* C32: when a signOut called in an authenticated state has completed, and
\* the listener has been told of it, the session key is absent from
\* localStorage and the Supabase client holds no session.
C32_SignOutLeavesNoSession ==
    SignOutCompleted =>
        /\ getItem(localStorage, MOCK_SESSION_KEY) = Null
        /\ primary = Null

----------------------------------------------------------------------------
(* The exposed fallback user and the stored session *)

\* The stored session is present, belongs to user u and expires after now
HoldsUnexpiredSession(u) ==
    LET stored == getStoredSession(localStorage)
    IN  /\ stored # Null
        /\ stored[1].user = u
        /\ now < stored[1].expires_at

\* C33: in every state where isMockMode is true and a fallback user is
\* exposed, localStorage holds a session of that user with now < expires_at.
C33_FallbackOnlyWhileUnexpired ==
    AuthenticatedFallback(auth) => HoldsUnexpiredSession(auth.user[1])

----------------------------------------------------------------------------
(* The stored user list over time *)

\* The latest call was a signUp, direct or inside createDemoUsers, that
\* registered a user
SignUpSucceeded ==
    /\ last.op \in {"signUp", "createDemoUsers"}
    /\ IF last.ret = Null THEN FALSE ELSE last.ret.user # Null

\* C34: every call of MockAuthService leaves each stored user record in
\* its place and unmodified; the list changes only in a successful signUp
\* (direct or inside createDemoUsers), which appends the returned record
\* at the end.
C34_UserListAppendOnly ==
    /\ Len(PreUsers) <= Len(StoredUsers)
    /\ \A i \in 1..Len(PreUsers) : StoredUsers[i] = PreUsers[i]
    /\ IF SignUpSucceeded
       THEN StoredUsers = Append(PreUsers, last.ret.user[1])
       ELSE StoredUsers = PreUsers

\* A signUp has appended a record to a list that held users already
C34_Witness ==
    /\ SignUpSucceeded
    /\ Len(PreUsers) >= 2
    /\ Len(StoredUsers) = Len(PreUsers) + 1

----------------------------------------------------------------------------
(* What each method leaves alone *)

\* C35: signIn, signOut and getSession leave the value stored under the
\* users key as they found it, and signUp and createDemoUsers leave the
\* value stored under the session key as they found it.
C35_FrameConditions ==
    /\ last.op \in {"signIn", "signOut", "getSession"} =>
            getItem(localStorage, MOCK_USERS_KEY) = getItem(last.pre, MOCK_USERS_KEY)
    /\ last.op \in {"signUp", "createDemoUsers"} =>
            getItem(localStorage, MOCK_SESSION_KEY) = getItem(last.pre, MOCK_SESSION_KEY)

\* A signUp inside createDemoUsers has registered a user while a session
\* was stored
C35_Witness ==
    /\ last.op = "createDemoUsers"
    /\ SignUpSucceeded
    /\ StoredSession # Null
    /\ StoredSession[1].user.email # last.ret.user[1].email

----------------------------------------------------------------------------
(* The user bound to the stored session *)

\* C36: whenever a session is stored, its user equals, field by field, a
\* record of the stored user list.
C36_SessionUserIsStored ==
    StoredSession # Null =>
        \E i \in 1..Len(StoredUsers) : StoredUsers[i] = StoredSession[1].user

\* A session is stored for a user who is not the only one in the list
C36_Witness ==
    /\ StoredSession # Null
    /\ Len(StoredUsers) >= 2
    /\ StoredSession[1].user = StoredUsers[2]
    /\ last.op # "signIn"

----------------------------------------------------------------------------
(* The Dashboard's statistics *)

\* The Dashboard of an admin, a manager or an employee fetches its data
\* while employees submit requests and reviewers approve or reject them.
NextDashboard ==
    \/ \E f \in Fetches, p \in DashboardProfiles : FetchDashboardData(f, p)
    \/ \E f \in Fetches, o \in RequestOutcomes : AdminRecent(f, o)
    \/ \E f \in Fetches, o \in RequestOutcomes : AdminEmployees(f, o)
    \/ \E f \in Fetches, o \in RequestOutcomes : AdminTotal(f, o)
    \/ \E f \in Fetches, o \in RequestOutcomes : AdminPending(f, o)
    \/ \E f \in Fetches, o \in RequestOutcomes : AdminApproved(f, o)
    \/ \E f \in Fetches, o \in RequestOutcomes : AdminRejected(f, o)
    \/ \E f \in Fetches, o \in RequestOutcomes : ManagerRecent(f, o)
    \/ \E f \in Fetches, o \in RequestOutcomes : ManagerTeam(f, o)
    \/ \E f \in Fetches : ManagerNames(f)
    \/ \E f \in Fetches, o \in RequestOutcomes : EmployeeRecent(f, o)
    \/ \E e \in EmployeeIds : InsertRequest(e)
    \/ \E i \in 1..MaxRequests, s \in {"approved", "rejected"} : ReviewRequest(i, s)

SpecDashboard == Init /\ [][NextDashboard]_vars

\* fetchDashboardData has returned, by its last statement or its catch
FetchCompleted ==
    /\ dlast.op = "fetchDashboardData"
    /\ dlast.completed

StatsConsistent ==
    dashboard.stats.pendingRequests + dashboard.stats.approvedRequests
        + dashboard.stats.rejectedRequests <= dashboard.stats.totalRequests

\* C37: once fetchDashboardData has completed, for the admin, the manager
\* and the employee alike, the statistics it set satisfy pendingRequests +
\* approvedRequests + rejectedRequests <= totalRequests, whatever rows were
\* inserted or reviewed between its requests.
C37_StatsAddUp ==
    FetchCompleted => StatsConsistent

=============================================================================
